---- MODULE Spec2Model ----
(***************************************************************************)
(* Task-graph extraction and next-task recommendation of the spec          *)
(* workflow (task parser), with the external executor that ticks           *)
(* checkboxes in tasks.md.                                                 *)
(*                                                                         *)
(* Strings that the code takes apart (task ids, checkbox contents) are     *)
(* sequences of one-character strings, so that split, join, trim and       *)
(* Number are computed and not assumed.  A line of tasks.md is a record of *)
(* the features the parser's regular expressions look at.                  *)
(***************************************************************************)
EXTENDS Integers, Sequences, FiniteSets, TLC

VARIABLES tasksMd, result, cli, loadSpecCall, packageJson, metaCall, run, scan,
          dashboard, multi

vars == <<tasksMd, result, cli, loadSpecCall, packageJson, metaCall, run, scan,
         dashboard, multi>>

\* the inspect-setup command and the loadSpec call it awaits
commandVars == <<cli, loadSpecCall>>

\* package.json and the calls of getPackageMetadata
packageVars == <<packageJson, metaCall>>

\* the executor's run through the recommendations
progressVars == <<run>>

\* the line scan in progress
scanVars == <<scan>>

\* the single-project and the multi-project dashboard server
dashboardVars == <<dashboard, multi>>

(* ----------------------------- bounds --------------------------------- *)

\* longest tasks.md (in lines) of the hierarchical documents
MaxLines == 3

\* longest flat checklist (in tasks)
MaxTasks == 40

(* ------------------------- optional values ---------------------------- *)

\* undefined / null of an optional TaskInfo is the empty sequence, a value v is <<v>>
None == <<>>

Some(v) == <<v>>

\* undefined of an optional string (parent_task, requirements_ref, leverage)
NoStr == <<>>

(* --------------------------- string helpers --------------------------- *)

Digits == <<"0", "1", "2", "3", "4", "5", "6", "7", "8", "9">>

IsSpace(c) == c \in {" ", "\t"}

RECURSIVE TrimStart(_)
TrimStart(s) ==
  IF s # <<>> /\ IsSpace(Head(s)) THEN TrimStart(Tail(s)) ELSE s

RECURSIVE TrimEnd(_)
TrimEnd(s) ==
  IF s # <<>> /\ IsSpace(s[Len(s)]) THEN TrimEnd(SubSeq(s, 1, Len(s) - 1)) ELSE s

\* String.prototype.trim
Trim(s) == TrimEnd(TrimStart(s))

\* taskId.split('.'): the pieces between the dots, at least one piece
RECURSIVE SplitDots(_, _, _)
SplitDots(s, cur, acc) ==
  IF s = <<>> THEN Append(acc, cur)
  ELSE IF Head(s) = "." THEN SplitDots(Tail(s), <<>>, Append(acc, cur))
  ELSE SplitDots(Tail(s), Append(cur, Head(s)), acc)

Split(s) == SplitDots(s, <<>>, <<>>)

\* parts.join('.')
RECURSIVE Join(_)
Join(parts) ==
  IF parts = <<>> THEN <<>>
  ELSE IF Len(parts) = 1 THEN parts[1]
  ELSE parts[1] \o <<".">> \o Join(Tail(parts))

DigitValue(c) == CHOOSE d \in 0..9 : Digits[d + 1] = c

\* Number(part) of a run of decimal digits; Number("") is 0
RECURSIVE NumberAcc(_, _)
NumberAcc(s, acc) ==
  IF s = <<>> THEN acc ELSE NumberAcc(Tail(s), 10 * acc + DigitValue(Head(s)))

Number(part) == NumberAcc(part, 0)

(* --------------------------- hierarchy -------------------------------- *)

getParentTaskId(taskId) ==
  LET parts == Split(taskId)
  IN  IF Len(parts) > 1 THEN Join(SubSeq(parts, 1, Len(parts) - 1)) ELSE NoStr

getTaskDepth(taskId) == Len(Split(taskId)) - 1

Max(a, b) == IF a >= b THEN a ELSE b

\* aParts[i] || 0 : a missing component counts as 0
PartOrZero(parts, i) == IF i <= Len(parts) THEN Number(parts[i]) ELSE 0

RECURSIVE compareFrom(_, _, _, _)
compareFrom(aParts, bParts, i, maxLength) ==
  IF i > maxLength THEN 0
  ELSE IF PartOrZero(aParts, i) # PartOrZero(bParts, i)
       THEN PartOrZero(aParts, i) - PartOrZero(bParts, i)
       ELSE compareFrom(aParts, bParts, i + 1, maxLength)

\* variant: descending order (bParts minus aParts)
compareTaskIds_Reversed(a, b) ==
  LET aParts == Split(a)
      bParts == Split(b)
  IN  compareFrom(bParts, aParts, 1, Max(Len(aParts), Len(bParts)))

CharCode(c) == IF c = "." THEN 46 ELSE 48 + DigitValue(c)

RECURSIVE compareChars(_, _)
compareChars(a, b) ==
  IF a = <<>> /\ b = <<>> THEN 0
  ELSE IF a = <<>> THEN -1
  ELSE IF b = <<>> THEN 1
  ELSE IF Head(a) # Head(b) THEN CharCode(Head(a)) - CharCode(Head(b))
  ELSE compareChars(Tail(a), Tail(b))

\* variant: the ids compared as strings, character by character
compareTaskIds_AsStrings(a, b) == compareChars(a, b)

compareTaskIds(a, b) ==
  LET aParts == Split(a)
      bParts == Split(b)
  IN  compareFrom(aParts, bParts, 1, Max(Len(aParts), Len(bParts)))

(* ------------------------ lines of tasks.md --------------------------- *)

(* A line is the record of what the parser's regular expressions see:      *)
(*   lead  first character class: "" (none: an empty line or a line that   *)
(*         starts with a non-blank character), " ", "\t", or "\r" (the     *)
(*         carriage return that split('\n') leaves on a CRLF line)         *)
(*   kind  "task"  the trimmed line matches the task-line expression       *)
(*         "stub"  it matches only  ^-\s*\[[x\s]*\]\s*[0-9]                *)
(*         "blank" the trimmed line is empty                               *)
(*         "plain" anything else                                           *)
(*   box   checkbox content (group 1), id (group 2), desc (group 3)        *)
(*   req, lev  captures of _Requirements: and _Leverage: (NoStr: no match) *)

TaskLine(lead, box, id) ==
  [lead |-> lead, kind |-> "task", box |-> box, id |-> id, desc |-> "d",
   req |-> NoStr, lev |-> NoStr]

PlainLine(lead, req, lev) ==
  [lead |-> lead, kind |-> "plain", box |-> <<>>, id |-> <<>>, desc |-> "",
   req |-> req, lev |-> lev]

BlankLine(lead) ==
  [lead |-> lead, kind |-> "blank", box |-> <<>>, id |-> <<>>, desc |-> "",
   req |-> NoStr, lev |-> NoStr]

StubLine(lead, box) ==
  [lead |-> lead, kind |-> "stub", box |-> box, id |-> <<>>, desc |-> "",
   req |-> NoStr, lev |-> NoStr]

\* tasksContent.split('\n'): the empty string still has one (empty) line
SplitLines(tasksContent) ==
  IF tasksContent = <<>> THEN <<BlankLine("")>> ELSE tasksContent

\* nextLine.length > 0 && nextLine[0] !== ' ' && nextLine[0] !== '\t' && !nextLine.startsWith('  -')
IsNonIndentedContent(nextLine) ==
  /\ ~(nextLine.kind = "blank" /\ nextLine.lead = "")
  /\ nextLine.lead # " "
  /\ nextLine.lead # "\t"

(* --------------------------- parseAllTasks ---------------------------- *)

\* variant: the checkbox content is compared with 'x' as it is written
NewTask_Untrimmed(line) ==
  [id               |-> line.id,
   description      |-> line.desc,
   status           |-> IF line.box = <<"x">> THEN "completed" ELSE "pending",
   full_text        |-> line,
   parent_task      |-> getParentTaskId(line.id),
   requirements_ref |-> NoStr,
   leverage         |-> NoStr]

NewTask(line) ==
  [id               |-> line.id,
   description      |-> line.desc,
   status           |-> IF Trim(line.box) = <<"x">> THEN "completed" ELSE "pending",
   full_text        |-> line,
   parent_task      |-> getParentTaskId(line.id),
   requirements_ref |-> NoStr,
   leverage         |-> NoStr]

PushCurrent(tasks, currentTask) ==
  IF currentTask # None THEN Append(tasks, currentTask[1]) ELSE tasks

\* variant: a value that is already set is kept
WithMetadata_FirstWins(task, line) ==
  [task EXCEPT
     !.requirements_ref = IF line.req # NoStr /\ @ = NoStr THEN Trim(line.req) ELSE @,
     !.leverage         = IF line.lev # NoStr /\ @ = NoStr THEN Trim(line.lev) ELSE @]

\* the metadata assignments of one non-task line inside a task block
WithMetadata(task, line) ==
  [task EXCEPT
     !.requirements_ref = IF line.req # NoStr THEN Trim(line.req) ELSE @,
     !.leverage         = IF line.lev # NoStr THEN Trim(line.lev) ELSE @]

\* the for loop over the lines; i is the (1-based) index of the line visited
RECURSIVE ScanLines(_, _, _, _, _)
ScanLines(lines, i, currentTask, isCollectingTaskContent, tasks) ==
  IF i > Len(lines) THEN PushCurrent(tasks, currentTask)
  ELSE
    LET line == lines[i] IN
    IF line.kind = "task"
    THEN ScanLines(lines, i + 1, Some(NewTask(line)), TRUE,
                   PushCurrent(tasks, currentTask))
    ELSE IF currentTask # None /\ isCollectingTaskContent
    THEN IF line.kind = "stub"
         THEN \* i--; continue : the same line is visited again, not collecting
              ScanLines(lines, i, currentTask, FALSE, tasks)
         ELSE ScanLines(lines, i + 1, Some(WithMetadata(currentTask[1], line)),
                        ~(/\ line.kind = "blank"
                          /\ i + 1 <= Len(lines)
                          /\ IsNonIndentedContent(lines[i + 1])),
                        tasks)
    ELSE ScanLines(lines, i + 1, currentTask, isCollectingTaskContent, tasks)

parseAllTasks(tasksContent) ==
  ScanLines(SplitLines(tasksContent), 1, None, FALSE, <<>>)

(* ----------------------- dependency satisfier ------------------------- *)

IsCompleted(t) == t.status = "completed"

IsPending(t) == t.status = "pending"

\* Array.prototype.some
SomeHasId(tasks, id) == \E k \in 1..Len(tasks) : tasks[k].id = id

\* Array.prototype.sort is stable: x goes behind every element that does
\* not compare greater than it
RECURSIVE InsertById(_, _)
InsertById(sorted, x) ==
  IF sorted # <<>> /\ compareTaskIds(sorted[Len(sorted)].id, x.id) > 0
  THEN Append(InsertById(SubSeq(sorted, 1, Len(sorted) - 1), x), sorted[Len(sorted)])
  ELSE Append(sorted, x)

RECURSIVE SortById(_)
SortById(tasks) ==
  IF tasks = <<>> THEN <<>>
  ELSE InsertById(SortById(SubSeq(tasks, 1, Len(tasks) - 1)), tasks[Len(tasks)])

\* variant: every task at the same depth counts as a sibling
getSiblingTasks_AnyParent(task, allTasks) ==
  SortById(SelectSeq(allTasks,
     LAMBDA t : getTaskDepth(t.id) = getTaskDepth(task.id)))

getSiblingTasks(task, allTasks) ==
  SortById(SelectSeq(allTasks,
     LAMBDA t : getTaskDepth(t.id) = getTaskDepth(task.id)
                /\ t.parent_task = task.parent_task))

\* findIndex, 1-based; 0 when no element has the id
getTaskIndexInSiblings(task, siblings) ==
  IF SomeHasId(siblings, task.id)
  THEN CHOOSE k \in 1..Len(siblings) :
         /\ siblings[k].id = task.id
         /\ \A j \in 1..(k - 1) : siblings[j].id # task.id
  ELSE 0

\* variant: the test of the parent's completion negated
areTaskDependenciesSatisfied_ParentNegated(task, allTasks, completedTasks) ==
  LET parentBlocks ==
        /\ task.parent_task # NoStr
        /\ SomeHasId(completedTasks, task.parent_task)
      siblingTasks == getSiblingTasks(task, allTasks)
      taskIndex == getTaskIndexInSiblings(task, siblingTasks)
  IN  /\ ~parentBlocks
      /\ \A i \in 1..(taskIndex - 1) : SomeHasId(completedTasks, siblingTasks[i].id)

\* variant: without the check that the parent exists at all
areTaskDependenciesSatisfied_NoExistenceCheck(task, allTasks, completedTasks) ==
  LET parentBlocks ==
        /\ task.parent_task # NoStr
        /\ ~SomeHasId(completedTasks, task.parent_task)
      siblingTasks == getSiblingTasks(task, allTasks)
      taskIndex == getTaskIndexInSiblings(task, siblingTasks)
  IN  /\ ~parentBlocks
      /\ \A i \in 1..(taskIndex - 1) : SomeHasId(completedTasks, siblingTasks[i].id)

areTaskDependenciesSatisfied(task, allTasks, completedTasks) ==
  LET parentBlocks ==
        /\ task.parent_task # NoStr
        /\ ~SomeHasId(completedTasks, task.parent_task)
        /\ SomeHasId(allTasks, task.parent_task)
      siblingTasks == getSiblingTasks(task, allTasks)
      taskIndex == getTaskIndexInSiblings(task, siblingTasks)
  IN  /\ ~parentBlocks
      /\ \A i \in 1..(taskIndex - 1) : SomeHasId(completedTasks, siblingTasks[i].id)

(* ----------------------- recommendation engine ------------------------ *)

\* variant: the depth is not looked at
compareReady_IgnoresDepth(a, b) == compareTaskIds(a.id, b.id)

\* variant: tasks of the same depth compare equal
compareReady_DepthOnly(a, b) == getTaskDepth(a.id) - getTaskDepth(b.id)

\* the comparator of readyTasks.sort
compareReady(a, b) ==
  IF getTaskDepth(a.id) # getTaskDepth(b.id)
  THEN getTaskDepth(a.id) - getTaskDepth(b.id)
  ELSE compareTaskIds(a.id, b.id)

RECURSIVE InsertReady(_, _)
InsertReady(sorted, x) ==
  IF sorted # <<>> /\ compareReady(sorted[Len(sorted)], x) > 0
  THEN Append(InsertReady(SubSeq(sorted, 1, Len(sorted) - 1), x), sorted[Len(sorted)])
  ELSE Append(sorted, x)

RECURSIVE SortReady(_)
SortReady(tasks) ==
  IF tasks = <<>> THEN <<>>
  ELSE InsertReady(SortReady(SubSeq(tasks, 1, Len(tasks) - 1)), tasks[Len(tasks)])

\* variant: without strategy 1, the dependency analysis also runs when no
\* task is completed yet
getRecommendedNextTask_NoBootstrap(tasksContent) ==
  LET tasks == parseAllTasks(tasksContent)
      pendingTasks == SelectSeq(tasks, IsPending)
      completedTasks == SelectSeq(tasks, IsCompleted)
      readyTasks == SelectSeq(pendingTasks,
                      LAMBDA t : areTaskDependenciesSatisfied(t, tasks, completedTasks))
  IN  IF Len(tasks) = 0 THEN None
      ELSE IF Len(pendingTasks) = 0 THEN None
      ELSE IF Len(readyTasks) = 0 THEN Some(pendingTasks[1])
      ELSE Some(SortReady(readyTasks)[1])

getRecommendedNextTask(tasksContent) ==
  LET tasks == parseAllTasks(tasksContent)
      pendingTasks == SelectSeq(tasks, IsPending)
      completedTasks == SelectSeq(tasks, IsCompleted)
      readyTasks == SelectSeq(pendingTasks,
                      LAMBDA t : areTaskDependenciesSatisfied(t, tasks, completedTasks))
  IN  IF Len(tasks) = 0 THEN None
      ELSE IF Len(pendingTasks) = 0 THEN None
      ELSE IF Len(completedTasks) = 0 THEN Some(pendingTasks[1])
      ELSE IF Len(readyTasks) = 0 THEN Some(pendingTasks[1])
      ELSE Some(SortReady(readyTasks)[1])

(* ------------------- binary64 arithmetic of the percentage ------------ *)

(* Math.round((completed / total) * 100) is computed in IEEE 754 binary64: *)
(* the quotient is rounded to 53 significant bits, the product with 100 is *)
(* rounded again, and Math.round takes the nearest integer of that double  *)
(* (halves upwards).  A positive double is [sig, exp]: sig is its 53 bits, *)
(* most significant first (the first one is 1), and its value is           *)
(* sig * 2^(exp - 52).                                                     *)

\* number of significant bits of a binary64 number
F64Precision == 53

RECURSIVE Pow2(_)
Pow2(n) == IF n = 0 THEN 1 ELSE 2 * Pow2(n - 1)

RECURSIVE BitsValue(_)
BitsValue(bits) ==
  IF bits = <<>> THEN 0
  ELSE 2 * BitsValue(SubSeq(bits, 1, Len(bits) - 1)) + bits[Len(bits)]

RECURSIVE DropLeadingZeros(_)
DropLeadingZeros(bits) ==
  IF bits # <<>> /\ Head(bits) = 0 THEN DropLeadingZeros(Tail(bits)) ELSE bits

RECURSIVE Increment(_)
Increment(bits) ==
  IF bits[Len(bits)] = 0 THEN [bits EXCEPT ![Len(bits)] = 1]
  ELSE Append(Increment(SubSeq(bits, 1, Len(bits) - 1)), 0)

\* round to nearest, ties to even: kept are the first 53 bits, guard is the
\* first bit dropped, sticky tells whether anything non-zero follows it
F64Round(kept, exp, guard, sticky) ==
  IF ~(guard = 1 /\ (sticky \/ kept[F64Precision] = 1))
  THEN [sig |-> kept, exp |-> exp]
  ELSE IF \A k \in 1..F64Precision : kept[k] = 1
  THEN [sig |-> [k \in 1..F64Precision |-> IF k = 1 THEN 1 ELSE 0], exp |-> exp + 1]
  ELSE [sig |-> Increment(kept), exp |-> exp]

\* smallest s with n * 2^s >= d
RECURSIVE ShiftCount(_, _)
ShiftCount(n, d) == IF n >= d THEN 0 ELSE 1 + ShiftCount(2 * n, d)

\* long division: the next `count` bits of the quotient and the remainder
RECURSIVE QuotientBits(_, _, _, _)
QuotientBits(rem, d, count, acc) ==
  IF count = 0 THEN [bits |-> acc, rem |-> rem]
  ELSE LET bit == IF 2 * rem >= d THEN 1 ELSE 0
       IN  QuotientBits(2 * rem - bit * d, d, count - 1, Append(acc, bit))

\* n / d for 0 < n <= d
F64Divide(n, d) ==
  LET s == ShiftCount(n, d)
      q == QuotientBits(n * Pow2(s) - d, d, F64Precision - 1, <<1>>)
      guard == IF 2 * q.rem >= d THEN 1 ELSE 0
  IN  F64Round(q.bits, 0 - s, guard, 2 * q.rem - guard * d # 0)

\* the bits of bits * k for a factor k below 128, by the school method from
\* the least significant bit
RECURSIVE TimesSmall(_, _, _, _, _)
TimesSmall(bits, i, k, carry, acc) ==
  IF i = 0 THEN [j \in 1..7 |-> (carry \div Pow2(7 - j)) % 2] \o acc
  ELSE TimesSmall(bits, i - 1, k, (bits[i] * k + carry) \div 2,
                  <<(bits[i] * k + carry) % 2>> \o acc)

\* x * 100
F64Times100(x) ==
  LET product == DropLeadingZeros(TimesSmall(x.sig, Len(x.sig), 100, 0, <<>>))
      dropped == SubSeq(product, F64Precision + 1, Len(product))
  IN  F64Round(SubSeq(product, 1, F64Precision),
               x.exp + Len(product) - F64Precision,
               dropped[1],
               \E j \in 2..Len(dropped) : dropped[j] = 1)

\* Math.round of a positive double below 2^52
MathRound(x) ==
  IF x.exp < -1 THEN 0
  ELSE IF x.exp = -1 THEN 1
  ELSE BitsValue(SubSeq(x.sig, 1, x.exp + 1)) + x.sig[x.exp + 2]

\* Math.round((completed / total) * 100) for 0 <= completed <= total, total > 0
MathRoundPercent(completed, total) ==
  IF completed = 0 THEN 0
  ELSE MathRound(F64Times100(F64Divide(completed, total)))

\* variant: the bootstrap branch does not set executionReady
recommendInline_BootstrapNotReady(tasks, completedTasks, pendingTasks) ==
  LET readyTasks == SelectSeq(pendingTasks,
                      LAMBDA t : areTaskDependenciesSatisfied(t, tasks, completedTasks))
  IN  IF Len(pendingTasks) > 0
      THEN IF Len(completedTasks) = 0
           THEN [recommendedTask |-> Some(pendingTasks[1]), executionReady |-> FALSE]
           ELSE IF Len(readyTasks) > 0
           THEN [recommendedTask |-> Some(SortReady(readyTasks)[1]), executionReady |-> TRUE]
           ELSE [recommendedTask |-> Some(pendingTasks[1]), executionReady |-> TRUE]
      ELSE [recommendedTask |-> None, executionReady |-> FALSE]

\* recommendedTask and executionReady as parseTaskSummary's inline logic assigns them
\* variant: execution_ready stays true when nothing is pending
recommendInline_ReadyWhenDone(tasks, completedTasks, pendingTasks) ==
  LET readyTasks == SelectSeq(pendingTasks,
                      LAMBDA t : areTaskDependenciesSatisfied(t, tasks, completedTasks))
  IN  IF Len(pendingTasks) > 0
      THEN IF Len(completedTasks) = 0
           THEN [recommendedTask |-> Some(pendingTasks[1]), executionReady |-> TRUE]
           ELSE IF Len(readyTasks) > 0
           THEN [recommendedTask |-> Some(SortReady(readyTasks)[1]), executionReady |-> TRUE]
           ELSE [recommendedTask |-> Some(pendingTasks[1]), executionReady |-> TRUE]
      ELSE [recommendedTask |-> None, executionReady |-> TRUE]

recommendInline(tasks, completedTasks, pendingTasks) ==
  LET readyTasks == SelectSeq(pendingTasks,
                      LAMBDA t : areTaskDependenciesSatisfied(t, tasks, completedTasks))
  IN  IF Len(pendingTasks) > 0
      THEN IF Len(completedTasks) = 0
           THEN [recommendedTask |-> Some(pendingTasks[1]), executionReady |-> TRUE]
           ELSE IF Len(readyTasks) > 0
           THEN [recommendedTask |-> Some(SortReady(readyTasks)[1]), executionReady |-> TRUE]
           ELSE [recommendedTask |-> Some(pendingTasks[1]), executionReady |-> TRUE]
      ELSE [recommendedTask |-> None, executionReady |-> FALSE]

\* variant: the recommended task is reported as the next pending task
parseTaskSummary_NextIsRecommended(tasksContent) ==
  LET tasks == parseAllTasks(tasksContent)
      completedTasks == SelectSeq(tasks, IsCompleted)
      pendingTasks == SelectSeq(tasks, IsPending)
      rec == recommendInline(tasks, completedTasks, pendingTasks)
  IN  [total_tasks           |-> Len(tasks),
       completed_tasks       |-> Len(completedTasks),
       pending_tasks         |-> Len(pendingTasks),
       completion_percentage |-> IF Len(tasks) > 0
                                 THEN MathRoundPercent(Len(completedTasks), Len(tasks))
                                 ELSE 0,
       next_pending_task     |-> rec.recommendedTask,
       last_completed_task   |-> IF Len(completedTasks) > 0
                                 THEN Some(completedTasks[Len(completedTasks)]) ELSE None,
       recommended_next_task |-> rec.recommendedTask,
       execution_ready       |-> rec.executionReady]

parseTaskSummary(tasksContent) ==
  LET tasks == parseAllTasks(tasksContent)
      completedTasks == SelectSeq(tasks, IsCompleted)
      pendingTasks == SelectSeq(tasks, IsPending)
      rec == recommendInline(tasks, completedTasks, pendingTasks)
  IN  [total_tasks           |-> Len(tasks),
       completed_tasks       |-> Len(completedTasks),
       pending_tasks         |-> Len(pendingTasks),
       completion_percentage |-> IF Len(tasks) > 0
                                 THEN MathRoundPercent(Len(completedTasks), Len(tasks))
                                 ELSE 0,
       next_pending_task     |-> IF Len(pendingTasks) > 0 THEN Some(pendingTasks[1]) ELSE None,
       last_completed_task   |-> IF Len(completedTasks) > 0
                                 THEN Some(completedTasks[Len(completedTasks)]) ELSE None,
       recommended_next_task |-> rec.recommendedTask,
       execution_ready       |-> rec.executionReady]

isExecutionReady(tasksContent) == getRecommendedNextTask(tasksContent) # None

\* blocked_reason and next_task are None where the object has no such key
getExecutionStatus(tasksContent) ==
  LET tasks == parseAllTasks(tasksContent)
      pendingTasks == SelectSeq(tasks, IsPending)
      recommendedTask == getRecommendedNextTask(tasksContent)
  IN  IF Len(pendingTasks) = 0
      THEN [ready |-> FALSE, next_task |-> None,
            blocked_reason |-> Some("All tasks completed"), total_remaining |-> 0]
      ELSE IF recommendedTask = None
      THEN [ready |-> FALSE, next_task |-> None,
            blocked_reason |-> Some("No tasks ready for execution (dependency issues)"),
            total_remaining |-> Len(pendingTasks)]
      ELSE [ready |-> TRUE, next_task |-> recommendedTask,
            blocked_reason |-> None, total_remaining |-> Len(pendingTasks)]

(* ------------------------------ lookups ------------------------------- *)

\* Array.prototype.findIndex over the ids, 1-based; 0 stands for -1
FindIndexById(tasks, taskId) ==
  IF SomeHasId(tasks, taskId)
  THEN CHOOSE k \in 1..Len(tasks) :
         /\ tasks[k].id = taskId
         /\ \A j \in 1..(k - 1) : tasks[j].id # taskId
  ELSE 0

\* variant: the last task that carries the id
parseSpecificTask_LastMatch(tasksContent, taskId) ==
  LET allTasks == parseAllTasks(tasksContent)
      matches == SelectSeq(allTasks, LAMBDA t : t.id = taskId)
  IN  IF matches = <<>> THEN None ELSE Some(matches[Len(matches)])

\* allTasks.find(task => task.id === taskId) || null
parseSpecificTask(tasksContent, taskId) ==
  LET allTasks == parseAllTasks(tasksContent)
      taskIndex == FindIndexById(allTasks, taskId)
  IN  IF taskIndex = 0 THEN None ELSE Some(allTasks[taskIndex])

\* variant: a context is built for every id, found or not
getTaskContext_NeverNull(tasksContent, taskId) ==
  LET summary == parseTaskSummary(tasksContent)
      allTasks == parseAllTasks(tasksContent)
      taskIndex == FindIndexById(allTasks, taskId)
  IN  Some([parent_task     |-> getParentTaskId(taskId),
            total_tasks     |-> summary.total_tasks,
            completed_tasks |-> summary.completed_tasks,
            next_task       |-> IF taskIndex < Len(allTasks)
                                THEN allTasks[taskIndex + 1].id ELSE NoStr,
            previous_task   |-> IF taskIndex > 1
                                THEN allTasks[taskIndex - 1].id ELSE NoStr])

getTaskContext(tasksContent, taskId) ==
  LET summary == parseTaskSummary(tasksContent)
      allTasks == parseAllTasks(tasksContent)
      taskIndex == FindIndexById(allTasks, taskId)
  IN  IF taskIndex = 0 THEN None
      ELSE Some([parent_task     |-> getParentTaskId(taskId),
                 total_tasks     |-> summary.total_tasks,
                 completed_tasks |-> summary.completed_tasks,
                 next_task       |-> IF taskIndex < Len(allTasks)
                                     THEN allTasks[taskIndex + 1].id ELSE NoStr,
                 previous_task   |-> IF taskIndex > 1
                                     THEN allTasks[taskIndex - 1].id ELSE NoStr])

\* tasks.find(task => task.status === 'pending') || null
findNextPendingTask(tasksContent) ==
  LET pending == SelectSeq(parseAllTasks(tasksContent), IsPending)
  IN  IF pending = <<>> THEN None ELSE Some(pending[1])

IsDigit(c) == \E d \in 1..Len(Digits) : Digits[d] = c

\* /^\d+(?:\.\d+)*$/.test(taskId): dot-separated, non-empty runs of digits
isValidTaskId(taskId) ==
  /\ taskId # <<>>
  /\ \A k \in 1..Len(Split(taskId)) :
       /\ Split(taskId)[k] # <<>>
       /\ \A j \in 1..Len(Split(taskId)[k]) : IsDigit(Split(taskId)[k][j])

(* ------------------------- the documents ------------------------------ *)

Id1 == <<"1">>

Id2 == <<"2">>

Id1p1 == <<"1", ".", "1">>

Id2p9 == <<"2", ".", "9">>

Id2p10 == <<"2", ".", "1", "0">>

Id1p1p1 == <<"1", ".", "1", ".", "1">>

\* the ids written in the documents: two top-level tasks, subtasks whose
\* parent may be missing, a two-digit component and a sub-subtask
TaskIds == {Id1, Id2, Id1p1, Id2p9, Id2p10, Id1p1p1}

Unchecked == <<" ">>

Checked == <<"x">>

\* "  - _Requirements: 3.2_" under a task
RequirementsLine == PlainLine(" ", <<"3", ".", "2">>, NoStr)

\* the lines a freshly written tasks.md is made of
FreshLines == {TaskLine("", Unchecked, id) : id \in TaskIds} \cup {RequirementsLine}

RECURSIVE SeqsUpTo(_, _)
SeqsUpTo(S, n) ==
  IF n = 0 THEN {<<>>}
  ELSE LET shorter == SeqsUpTo(S, n - 1)
       IN  shorter \cup {Append(q, x) : q \in {r \in shorter : Len(r) = n - 1}, x \in S}

\* ids are unique within a document (data model of the task graph)
UniqueIds(content) ==
  \A i, j \in 1..Len(content) :
    (content[i].kind = "task" /\ content[j].kind = "task" /\ content[i].id = content[j].id)
      => i = j

Documents == {d \in SeqsUpTo(FreshLines, MaxLines) : UniqueIds(d)}

\* the WebSocket connections a dashboard server may get
Sockets == {"s1", "s2"}

\* DashboardServer before start(): whether the server listens and the
\* watcher runs, the clients set, each socket's readyState ("none": no
\* such connection yet), the state of the getAllSpecs() promise of its /ws
\* handler, the messages sent to it in order, and the number of 'change'
\* events the watcher has emitted
NoDashboard ==
  [listening |-> FALSE, clients |-> {},
   readyState |-> [s \in Sockets |-> "none"],
   initial |-> [s \in Sockets |-> "none"],
   received |-> [s \in Sockets |-> <<>>],
   changes |-> 0]

\* MultiProjectDashboardServer before start(): the projects map in
\* insertion order (each entry numbered by its insertion, as a Map iterator
\* goes through them), the watchers ever created, whether the rescan
\* interval is set, the rescan callbacks and the call of stop()
NoMulti ==
  [started |-> FALSE, projects |-> <<>>, inserted |-> 0, watchers |-> <<>>,
   interval |-> FALSE, rescans |-> <<>>,
   stop |-> [pc |-> "none", cursor |-> 0, watcher |-> 0]]

DashboardIdle == dashboard = NoDashboard /\ multi = NoMulti

(* --------------------------- state machine ---------------------------- *)

NoResult == [op |-> "none", tasksContent |-> <<>>, value |-> <<>>]

\* options of an inspect-setup run that was not given any
NoOptions == [task |-> None, taskSummary |-> FALSE, fullTasks |-> FALSE, nextTask |-> FALSE]

\* no inspect-setup process is running
NoCommand == [pc |-> "idle", options |-> NoOptions, exitCode |-> 0]

\* no call of loadSpec is in progress
NoLoadSpecCall ==
  [pc |-> "none", taskMode |-> "", taskId |-> None, tasksContent |-> <<>>,
   tasksResult |-> None]

\* the package.json of the installed package: whether readFileSync and
\* JSON.parse succeed on it, and the fields the metadata is taken from
PackageFile(readable, version) ==
  [readable |-> readable, version |-> version, name |-> "name", description |-> "description"]

\* getPackageMetadata has not been called yet; reads counts the calls of
\* readFileSync, value is what the last call returned
NoMetaCall == [reads |-> 0, outcome |-> "none", value |-> None]

\* the command line and the package metadata are not in use
CommandIdle == cli = NoCommand /\ loadSpecCall = NoLoadSpecCall

PackageIdle == packageJson = PackageFile(TRUE, 1) /\ metaCall = NoMetaCall

\* the executor has not started a run through the recommendations: steps
\* counts the tasks it has completed, pendingAtStart the tasks that were
\* pending when it started, recommended lists the ids it was given
NoRun == [steps |-> 0, pendingAtStart |-> 0, recommended |-> <<>>]

ProgressIdle == run = NoRun

\* no line scan is in progress.  Of a scan in progress: the function that
\* runs it, the lines, the index i of the for loop (1-based), the three
\* locals of the loop, how often each line has been visited, and the lines
\* at which i was stepped back
NoScan ==
  [parser |-> "none", lines |-> <<>>, i |-> 0, currentTask |-> None,
   isCollectingTaskContent |-> FALSE, tasks |-> <<>>, visits |-> <<>>,
   steppedBack |-> {}]

ScanIdle == scan = NoScan

Init ==
  /\ tasksMd \in Documents
  /\ result = NoResult
  /\ CommandIdle
  /\ PackageIdle
  /\ ProgressIdle
  /\ ScanIdle
  /\ DashboardIdle

\* the external executor ticks the checkbox of one pending task line; the
\* core is synchronous, so the edits fall between its invocations
ExecutorMarkCompleted(i) ==
  /\ result = NoResult
  /\ tasksMd[i].kind = "task"
  /\ Trim(tasksMd[i].box) # <<"x">>
  /\ tasksMd' = [tasksMd EXCEPT ![i].box = Checked]
  /\ UNCHANGED <<result, commandVars, packageVars, progressVars, scanVars, dashboardVars>>

InvokeParseAllTasks ==
  /\ result = NoResult
  /\ result' = [op |-> "parseAllTasks", tasksContent |-> tasksMd,
                value |-> parseAllTasks(tasksMd)]
  /\ UNCHANGED <<tasksMd, commandVars, packageVars, progressVars, scanVars, dashboardVars>>

InvokeParseTaskSummary ==
  /\ result = NoResult
  /\ result' = [op |-> "parseTaskSummary", tasksContent |-> tasksMd,
                value |-> parseTaskSummary(tasksMd)]
  /\ UNCHANGED <<tasksMd, commandVars, packageVars, progressVars, scanVars, dashboardVars>>

InvokeGetRecommendedNextTask ==
  /\ result = NoResult
  /\ result' = [op |-> "getRecommendedNextTask", tasksContent |-> tasksMd,
                value |-> getRecommendedNextTask(tasksMd)]
  /\ UNCHANGED <<tasksMd, commandVars, packageVars, progressVars, scanVars, dashboardVars>>

InvokeIsExecutionReady ==
  /\ result = NoResult
  /\ result' = [op |-> "isExecutionReady", tasksContent |-> tasksMd,
                value |-> isExecutionReady(tasksMd)]
  /\ UNCHANGED <<tasksMd, commandVars, packageVars, progressVars, scanVars, dashboardVars>>

InvokeGetExecutionStatus ==
  /\ result = NoResult
  /\ result' = [op |-> "getExecutionStatus", tasksContent |-> tasksMd,
                value |-> getExecutionStatus(tasksMd)]
  /\ UNCHANGED <<tasksMd, commandVars, packageVars, progressVars, scanVars, dashboardVars>>

\* the caller has taken the value the invocation returned
Return ==
  /\ result # NoResult
  /\ result' = NoResult
  /\ UNCHANGED <<tasksMd, commandVars, packageVars, progressVars, scanVars, dashboardVars>>

Next ==
  \/ \E i \in 1..Len(tasksMd) : ExecutorMarkCompleted(i)
  \/ InvokeParseAllTasks
  \/ InvokeParseTaskSummary
  \/ InvokeGetRecommendedNextTask
  \/ InvokeIsExecutionReady
  \/ Return

Spec == Init /\ [][Next]_vars

(* ---------------- flat checklists, for the summary's counts ----------- *)

\* the decimal numeral of n > 0
RECURSIVE Numeral(_)
Numeral(n) ==
  IF n < 10 THEN <<Digits[n + 1]>> ELSE Append(Numeral(n \div 10), Digits[(n % 10) + 1])

\* a tasks.md of `total` top-level tasks 1, 2, ... of which the first
\* `completed` are checked
Checklist(completed, total) ==
  [k \in 1..total |-> TaskLine("", IF k <= completed THEN Checked ELSE Unchecked, Numeral(k))]

InitChecklist ==
  /\ tasksMd \in {Checklist(ct[1], ct[2]) :
                    ct \in {x \in (0..MaxTasks) \X (0..MaxTasks) : x[1] <= x[2]}}
  /\ result = NoResult
  /\ CommandIdle
  /\ PackageIdle
  /\ ProgressIdle
  /\ ScanIdle
  /\ DashboardIdle

NextSummary ==
  \/ InvokeParseTaskSummary
  \/ Return

\* parseTaskSummary applied to every checklist
SpecChecklist == InitChecklist /\ [][NextSummary]_vars

(* ------------- lookups by id, also with an id written twice ----------- *)

\* longest tasks.md (in lines) the lookups are applied to
MaxLookupLines == 3

Id3 == <<"3">>

\* the lines of these documents; the same task line may be written twice
LookupLines == {TaskLine("", Unchecked, id) : id \in {Id1, Id1p1, Id2}} \cup {RequirementsLine}

\* the ids that are looked up: two that are written, one that never is
LookupIds == {Id1, Id1p1, Id3}

InitLookup ==
  /\ tasksMd \in SeqsUpTo(LookupLines, MaxLookupLines)
  /\ result = NoResult
  /\ CommandIdle
  /\ PackageIdle
  /\ ProgressIdle
  /\ ScanIdle
  /\ DashboardIdle

InvokeParseSpecificTask(taskId) ==
  /\ result = NoResult
  /\ result' = [op |-> "parseSpecificTask", tasksContent |-> tasksMd, taskId |-> taskId,
                value |-> parseSpecificTask(tasksMd, taskId)]
  /\ UNCHANGED <<tasksMd, commandVars, packageVars, progressVars, scanVars, dashboardVars>>

InvokeGetTaskContext(taskId) ==
  /\ result = NoResult
  /\ result' = [op |-> "getTaskContext", tasksContent |-> tasksMd, taskId |-> taskId,
                value |-> getTaskContext(tasksMd, taskId)]
  /\ UNCHANGED <<tasksMd, commandVars, packageVars, progressVars, scanVars, dashboardVars>>

InvokeFindNextPendingTask ==
  /\ result = NoResult
  /\ result' = [op |-> "findNextPendingTask", tasksContent |-> tasksMd,
                value |-> findNextPendingTask(tasksMd)]
  /\ UNCHANGED <<tasksMd, commandVars, packageVars, progressVars, scanVars, dashboardVars>>

NextLookup ==
  \/ \E i \in 1..Len(tasksMd) : ExecutorMarkCompleted(i)
  \/ InvokeParseAllTasks
  \/ InvokeParseTaskSummary
  \/ \E taskId \in LookupIds : InvokeParseSpecificTask(taskId)
  \/ \E taskId \in LookupIds : InvokeGetTaskContext(taskId)
  \/ InvokeFindNextPendingTask
  \/ Return

\* the read operations of the task parser between the executor's edits
SpecLookup == InitLookup /\ [][NextLookup]_vars

(* ------------- documents line by line, for the extraction ------------ *)

\* longest tasks.md (in lines) whose lines are of every kind
MaxParseLines == 3

\* checkbox contents: empty, blank, x, x between blanks, two x
Checkboxes == {<<>>, Unchecked, Checked, <<" ", "x", " ">>, <<"x", "x">>}

\* "  - _Leverage: a.ts_" under a task
LeverageLine == PlainLine(" ", NoStr, <<"a">>)

\* "_Requirements: 3.2_" at the start of a line
UnindentedRequirementsLine == PlainLine("", <<"3", ".", "2">>, NoStr)

\* "## Heading"
HeadingLine == PlainLine("", NoStr, NoStr)

\* task lines with every checkbox, an indented subtask line, a line with
\* list marker, checkbox and one digit only, empty and blank lines, a
\* heading, and metadata lines
ParseLines ==
  {TaskLine("", box, Id1) : box \in Checkboxes}
    \cup {TaskLine(" ", Unchecked, Id1p1), StubLine("", Unchecked),
          BlankLine(""), BlankLine(" "), HeadingLine,
          RequirementsLine, UnindentedRequirementsLine, LeverageLine}

InitParse ==
  /\ tasksMd \in SeqsUpTo(ParseLines, MaxParseLines)
  /\ result = NoResult
  /\ CommandIdle
  /\ PackageIdle
  /\ ProgressIdle
  /\ ScanIdle
  /\ DashboardIdle

NextParse ==
  \/ InvokeParseAllTasks
  \/ Return

\* parseAllTasks applied to every such document
SpecParse == InitParse /\ [][NextParse]_vars

(* ----------------------- the package metadata ------------------------- *)

\* the versions package.json goes through
MaxVersion == 3

\* the calls of getPackageMetadata that are followed
MaxReads == 6

\* readFileSync and JSON.parse of package.json, and the fields picked; a
\* failure of either is thrown to the caller
getPackageMetadata(file) ==
  IF file.readable
  THEN [outcome |-> "returned",
        value |-> Some([version |-> file.version, name |-> file.name,
                        description |-> file.description])]
  ELSE [outcome |-> "threw", value |-> None]

InitPackage ==
  /\ tasksMd = <<>>
  /\ result = NoResult
  /\ CommandIdle
  /\ PackageIdle
  /\ ProgressIdle
  /\ ScanIdle
  /\ DashboardIdle

\* one call of getPackageMetadata(): it reads the file
GetPackageMetadata ==
  /\ metaCall.reads < MaxReads
  /\ metaCall' = [reads |-> metaCall.reads + 1,
                  outcome |-> getPackageMetadata(packageJson).outcome,
                  value |-> getPackageMetadata(packageJson).value]
  /\ UNCHANGED <<tasksMd, result, commandVars, packageJson, progressVars, scanVars, dashboardVars>>

\* the environment: the package is upgraded, or its package.json can no
\* longer be read, or can be read again
PackageJsonChanges(readable, version) ==
  /\ PackageFile(readable, version) # packageJson
  /\ version >= packageJson.version
  /\ packageJson' = PackageFile(readable, version)
  /\ UNCHANGED <<tasksMd, result, commandVars, metaCall, progressVars, scanVars, dashboardVars>>

NextPackage ==
  \/ GetPackageMetadata
  \/ \E readable \in BOOLEAN, version \in 1..MaxVersion : PackageJsonChanges(readable, version)

\* getPackageMetadata called again and again while package.json changes
SpecPackage == InitPackage /\ [][NextPackage]_vars

(* -------------- documents line by line, for the blocks ---------------- *)

\* longest tasks.md (in lines) whose metadata blocks are looked at
MaxBlockLines == 4

\* the blank line of a document with CRLF line ends
CarriageReturnLine == BlankLine("\r")

\* one task line, the lines that may end its block, and metadata lines
BlockLines ==
  {TaskLine("", Unchecked, Id1), StubLine("", Unchecked),
   BlankLine(""), BlankLine(" "), CarriageReturnLine, HeadingLine,
   RequirementsLine, UnindentedRequirementsLine, LeverageLine}

InitBlocks ==
  /\ tasksMd \in SeqsUpTo(BlockLines, MaxBlockLines)
  /\ result = NoResult
  /\ CommandIdle
  /\ PackageIdle
  /\ ProgressIdle
  /\ ScanIdle
  /\ DashboardIdle

\* parseAllTasks applied to every such document
SpecBlocks == InitBlocks /\ [][NextParse]_vars

(* ------------- documents with several metadata lines ------------------ *)

\* longest tasks.md (in lines) with several metadata lines per task
MaxMetadataLines == 4

\* "  - _Requirements: 4 _": the capture ends with a blank
OtherRequirementsLine == PlainLine(" ", <<"4", " ">>, NoStr)

\* "  - _Leverage: b_"
OtherLeverageLine == PlainLine(" ", NoStr, <<"b">>)

\* "  - _Requirements: 5_ _Leverage: c_": both labels on one line
BothLabelsLine == PlainLine(" ", <<"5">>, <<"c">>)

\* "  - some detail": an indented line without a label
DetailLine == PlainLine(" ", NoStr, NoStr)

MetadataLines ==
  {TaskLine("", Unchecked, Id1), TaskLine("", Checked, Id2),
   RequirementsLine, OtherRequirementsLine, LeverageLine, OtherLeverageLine,
   BothLabelsLine, DetailLine}

InitMetadata ==
  /\ tasksMd \in SeqsUpTo(MetadataLines, MaxMetadataLines)
  /\ result = NoResult
  /\ CommandIdle
  /\ PackageIdle
  /\ ProgressIdle
  /\ ScanIdle
  /\ DashboardIdle

\* parseAllTasks applied to every such document
SpecMetadata == InitMetadata /\ [][NextParse]_vars

(* ------- task lists of any shape: repeated and equal-valued ids -------- *)

\* longest tasks.md (in lines) of the task lists of any shape
MaxStatusLines == 3

Id01 == <<"0", "1">>

Id1p2 == <<"1", ".", "2">>

\* ids that may repeat within a document; "01" has the value of "1"
StatusIds == {Id1, Id01, Id2, Id1p1, Id1p2, Id1p1p1}

StatusLines == {TaskLine("", Unchecked, id) : id \in StatusIds}

InitStatus ==
  /\ tasksMd \in SeqsUpTo(StatusLines, MaxStatusLines)
  /\ result = NoResult
  /\ CommandIdle
  /\ PackageIdle
  /\ ProgressIdle
  /\ ScanIdle
  /\ DashboardIdle

\* the executor ticks checkboxes; the recommenders and the execution
\* status are asked in between
NextStatus ==
  \/ \E i \in 1..Len(tasksMd) : ExecutorMarkCompleted(i)
  \/ InvokeParseTaskSummary
  \/ InvokeGetRecommendedNextTask
  \/ InvokeIsExecutionReady
  \/ InvokeGetExecutionStatus
  \/ Return

SpecStatus == InitStatus /\ [][NextStatus]_vars

(* ------------ the executor follows the recommendations ----------------- *)

\* longest tasks.md (in lines) the executor works through
MaxProgressLines == 3

ProgressIds == {Id1, Id2, Id1p1, Id1p1p1}

\* task lines in either state, and a line that is no task
ProgressLines ==
  {TaskLine("", box, id) : box \in {Unchecked, Checked}, id \in ProgressIds}
    \cup {RequirementsLine}

\* the executor starts on a document in any state of completion
InitProgress ==
  /\ tasksMd \in {d \in SeqsUpTo(ProgressLines, MaxProgressLines) : UniqueIds(d)}
  /\ result = NoResult
  /\ CommandIdle
  /\ PackageIdle
  /\ run = [steps |-> 0,
            pendingAtStart |-> Len(SelectSeq(parseAllTasks(tasksMd), IsPending)),
            recommended |-> <<>>]
  /\ ScanIdle
  /\ DashboardIdle

\* the executor reads recommended_next_task of the summary and ticks the
\* checkbox of the task line with that id
ExecutorCompletesRecommended ==
  LET task == parseTaskSummary(tasksMd).recommended_next_task
      i == CHOOSE k \in 1..Len(tasksMd) :
             /\ tasksMd[k].kind = "task" /\ tasksMd[k].id = task[1].id
             /\ \A j \in 1..(k - 1) : ~(tasksMd[j].kind = "task" /\ tasksMd[j].id = task[1].id)
  IN  /\ result = NoResult
      /\ task # None
      /\ tasksMd' = [tasksMd EXCEPT ![i].box = Checked]
      /\ run' = [run EXCEPT !.steps = @ + 1, !.recommended = Append(@, task[1].id)]
      /\ UNCHANGED <<result, commandVars, packageVars, scanVars, dashboardVars>>

NextProgress ==
  \/ ExecutorCompletesRecommended
  \/ InvokeParseTaskSummary
  \/ Return

SpecProgress == InitProgress /\ [][NextProgress]_vars

(* ------------------- the line scan, one visit at a time ---------------- *)

\* longest tasks.md (in lines) scanned visit by visit
MaxScanLines == 3

\* the two functions with this loop: parseAllTasks and parseTasksFromMarkdown
Parsers == {"parseAllTasks", "parseTasksFromMarkdown"}

\* what a line is to the loop of a parser.  parseTasksFromMarkdown accepts
\* only whitespace between the brackets (\[\s*\]), so a checked line is
\* neither a task line nor the start of one
LineKindFor(parser, line) ==
  IF parser = "parseTasksFromMarkdown" /\ line.kind \in {"task", "stub"}
       /\ Trim(line.box) # <<>>
  THEN "plain"
  ELSE line.kind

\* the task object a task line starts
StartTask(parser, line) ==
  IF parser = "parseTasksFromMarkdown"
  THEN [id |-> line.id, description |-> line.desc,
        requirements |-> NoStr, leverage |-> NoStr]
  ELSE NewTask(line)

\* the metadata assignments of one non-task line
CollectMetadata(parser, task, line) ==
  IF parser = "parseTasksFromMarkdown"
  THEN [task EXCEPT
          !.requirements = IF line.req # NoStr THEN Trim(line.req) ELSE @,
          !.leverage     = IF line.lev # NoStr THEN Trim(line.lev) ELSE @]
  ELSE WithMetadata(task, line)

ScanLineKinds ==
  {TaskLine("", Unchecked, Id1), TaskLine("", Checked, Id2),
   StubLine("", Unchecked), StubLine("", Checked),
   BlankLine(""), HeadingLine, RequirementsLine}

InitScan ==
  /\ tasksMd \in SeqsUpTo(ScanLineKinds, MaxScanLines)
  /\ result = NoResult
  /\ CommandIdle
  /\ PackageIdle
  /\ ProgressIdle
  /\ ScanIdle
  /\ DashboardIdle

\* the function is called: split('\n') and the initial values of the locals
ScanStart(parser) ==
  /\ scan = NoScan
  /\ result = NoResult
  /\ scan' = [parser |-> parser, lines |-> SplitLines(tasksMd), i |-> 1,
              currentTask |-> None, isCollectingTaskContent |-> FALSE,
              tasks |-> <<>>,
              visits |-> [k \in 1..Len(SplitLines(tasksMd)) |-> 0],
              steppedBack |-> {}]
  /\ UNCHANGED <<tasksMd, result, commandVars, packageVars, progressVars, dashboardVars>>

\* variant: the flag is left as it is when i is stepped back
ScanVisit_KeepsCollecting ==
  /\ scan.parser \in Parsers
  /\ scan.i <= Len(scan.lines)
  /\ LET line == scan.lines[scan.i]
         kind == LineKindFor(scan.parser, line)
         visited == [scan EXCEPT !.visits[scan.i] = @ + 1]
     IN  scan' =
           IF kind = "task"
           THEN [visited EXCEPT !.tasks = PushCurrent(@, scan.currentTask),
                                !.currentTask = Some(StartTask(scan.parser, line)),
                                !.isCollectingTaskContent = TRUE,
                                !.i = @ + 1]
           ELSE IF scan.currentTask # None /\ scan.isCollectingTaskContent
           THEN IF kind = "stub"
                THEN [visited EXCEPT !.steppedBack = @ \cup {scan.i}]
                ELSE [visited EXCEPT
                        !.currentTask =
                           Some(CollectMetadata(scan.parser, scan.currentTask[1], line)),
                        !.isCollectingTaskContent =
                           ~(/\ kind = "blank"
                             /\ scan.i + 1 <= Len(scan.lines)
                             /\ IsNonIndentedContent(scan.lines[scan.i + 1])),
                        !.i = @ + 1]
           ELSE [visited EXCEPT !.i = @ + 1]
  /\ UNCHANGED <<tasksMd, result, commandVars, packageVars, progressVars, dashboardVars>>

\* one iteration of the for loop, its i++ included: after `i--; continue`
\* the index is where it was
ScanVisit ==
  /\ scan.parser \in Parsers
  /\ scan.i <= Len(scan.lines)
  /\ LET line == scan.lines[scan.i]
         kind == LineKindFor(scan.parser, line)
         visited == [scan EXCEPT !.visits[scan.i] = @ + 1]
     IN  scan' =
           IF kind = "task"
           THEN [visited EXCEPT !.tasks = PushCurrent(@, scan.currentTask),
                                !.currentTask = Some(StartTask(scan.parser, line)),
                                !.isCollectingTaskContent = TRUE,
                                !.i = @ + 1]
           ELSE IF scan.currentTask # None /\ scan.isCollectingTaskContent
           THEN IF kind = "stub"
                THEN [visited EXCEPT !.isCollectingTaskContent = FALSE,
                                     !.steppedBack = @ \cup {scan.i}]
                ELSE [visited EXCEPT
                        !.currentTask =
                           Some(CollectMetadata(scan.parser, scan.currentTask[1], line)),
                        !.isCollectingTaskContent =
                           ~(/\ kind = "blank"
                             /\ scan.i + 1 <= Len(scan.lines)
                             /\ IsNonIndentedContent(scan.lines[scan.i + 1])),
                        !.i = @ + 1]
           ELSE [visited EXCEPT !.i = @ + 1]
  /\ UNCHANGED <<tasksMd, result, commandVars, packageVars, progressVars, dashboardVars>>

\* the loop is left: the last task is pushed and the list returned
ScanFinish ==
  /\ scan.parser \in Parsers
  /\ scan.i > Len(scan.lines)
  /\ result' = [op |-> scan.parser, tasksContent |-> tasksMd,
                value |-> PushCurrent(scan.tasks, scan.currentTask)]
  /\ scan' = NoScan
  /\ UNCHANGED <<tasksMd, commandVars, packageVars, progressVars, dashboardVars>>

NextScan ==
  \/ \E parser \in Parsers : ScanStart(parser)
  \/ ScanVisit
  \/ ScanFinish
  \/ Return

SpecScan == InitScan /\ [][NextScan]_vars

(* ------------------ DashboardServer and its WebSocket clients ---------- *)

\* most 'change' events of the watcher
MaxChanges == 2

InitDashboard ==
  /\ tasksMd = <<>>
  /\ result = NoResult
  /\ CommandIdle
  /\ PackageIdle
  /\ ProgressIdle
  /\ ScanIdle
  /\ DashboardIdle

\* socket.send / client.send: one more message on the socket
Sent(received, s, type) == [received EXCEPT ![s] = Append(@, type)]

\* start(): the /ws route and the 'change' handler are registered, the
\* watcher is started and the server listens
DashboardStart ==
  /\ dashboard = NoDashboard
  /\ dashboard' = [dashboard EXCEPT !.listening = TRUE]
  /\ UNCHANGED <<tasksMd, result, commandVars, packageVars, progressVars, scanVars, multi>>

\* the /ws handler: the socket joins the clients set and getAllSpecs() is
\* called; its promise is pending when the handler returns
ClientConnects(s) ==
  /\ dashboard.listening
  /\ dashboard.readyState[s] = "none"
  /\ dashboard' = [dashboard EXCEPT !.clients = @ \cup {s},
                                    !.readyState[s] = "open",
                                    !.initial[s] = "pending"]
  /\ UNCHANGED <<tasksMd, result, commandVars, packageVars, progressVars, scanVars, multi>>

\* getAllSpecs() fulfils: the then-callback sends 'initial'; send on a
\* socket that is no longer open throws into the catch-callback
GetAllSpecsFulfils(s) ==
  /\ dashboard.initial[s] = "pending"
  /\ dashboard' =
       IF dashboard.readyState[s] = "open"
       THEN [dashboard EXCEPT !.initial[s] = "sent",
                              !.received = Sent(@, s, "initial")]
       ELSE [dashboard EXCEPT !.initial[s] = "failed"]
  /\ UNCHANGED <<tasksMd, result, commandVars, packageVars, progressVars, scanVars, multi>>

\* getAllSpecs() rejects: the catch-callback logs the error
GetAllSpecsRejects(s) ==
  /\ dashboard.initial[s] = "pending"
  /\ dashboard' = [dashboard EXCEPT !.initial[s] = "failed"]
  /\ UNCHANGED <<tasksMd, result, commandVars, packageVars, progressVars, scanVars, multi>>

\* the watcher emits 'change': the handler sends 'update' to every client
\* in the set whose readyState is OPEN
WatcherChange ==
  /\ dashboard.listening
  /\ dashboard.changes < MaxChanges
  /\ dashboard' =
       [dashboard EXCEPT
          !.changes = @ + 1,
          !.received = [s \in Sockets |->
                          IF s \in dashboard.clients /\ dashboard.readyState[s] = "open"
                          THEN Append(@[s], "update") ELSE @[s]]]
  /\ UNCHANGED <<tasksMd, result, commandVars, packageVars, progressVars, scanVars, multi>>

\* the socket's 'close' (or 'error') event: the handler removes the client
SocketCloses(s) ==
  /\ dashboard.readyState[s] = "open"
  /\ dashboard' = [dashboard EXCEPT !.readyState[s] = "closed",
                                    !.clients = @ \ {s}]
  /\ UNCHANGED <<tasksMd, result, commandVars, packageVars, progressVars, scanVars, multi>>

\* stop(): every open client is closed, the set cleared, the watcher
\* stopped and the server closed
DashboardStop ==
  /\ dashboard.listening
  /\ dashboard' =
       [dashboard EXCEPT
          !.listening = FALSE,
          !.clients = {},
          !.readyState = [s \in Sockets |->
                            IF s \in dashboard.clients /\ @[s] = "open"
                            THEN "closed" ELSE @[s]]]
  /\ UNCHANGED <<tasksMd, result, commandVars, packageVars, progressVars, scanVars, multi>>

NextDashboard ==
  \/ DashboardStart
  \/ \E s \in Sockets : ClientConnects(s)
  \/ \E s \in Sockets : GetAllSpecsFulfils(s)
  \/ \E s \in Sockets : GetAllSpecsRejects(s)
  \/ WatcherChange
  \/ \E s \in Sockets : SocketCloses(s)
  \/ DashboardStop

SpecDashboard == InitDashboard /\ [][NextDashboard]_vars

(* ------- MultiProjectDashboardServer: rescan callbacks and stop() ------ *)

\* most rescan callbacks the interval fires
MaxRescans == 2

\* most watchers created
MaxWatchers == 3

\* the project paths, in the order discoverProjects reports them
Paths == <<"a", "b">>

\* what discoverProjects may find active: any of the paths
ActiveLists == {<<>>, <<"a">>, <<"b">>, <<"a", "b">>}

InitMulti ==
  /\ tasksMd = <<>>
  /\ result = NoResult
  /\ CommandIdle
  /\ PackageIdle
  /\ ProgressIdle
  /\ ScanIdle
  /\ DashboardIdle

\* Map.prototype.has
HasProject(projects, path) == \E k \in 1..Len(projects) : projects[k].path = path

\* Map.prototype.set: the value of an existing key is replaced where the
\* key stands, a new key goes to the end
SetProject(m, path, watcher) ==
  IF HasProject(m.projects, path)
  THEN [m EXCEPT !.projects = [k \in 1..Len(@) |->
                                 IF @[k].path = path
                                 THEN [@[k] EXCEPT !.watcher = watcher] ELSE @[k]]]
  ELSE [m EXCEPT !.inserted = @ + 1,
                 !.projects = Append(@, [path |-> path, watcher |-> watcher,
                                         entry |-> m.inserted + 1])]

\* Map.prototype.delete
DeleteProject(m, path) ==
  [m EXCEPT !.projects = SelectSeq(@, LAMBDA e : e.path # path)]

\* the path is in the list discoverProjects returned
IsActive(activeProjects, path) ==
  \E k \in 1..Len(activeProjects) : activeProjects[k] = path

\* the least number of a set of numbers
Least(S) == CHOOSE k \in S : \A j \in S : k <= j

\* the second loop of a rescan callback, run up to its next await: the
\* entries after the cursor are gone through in insertion order; at the
\* first one that is no longer active getAllSpecs() is awaited; the
\* callback ends when none is left
AdvanceOld(m, r) ==
  LET rescan == m.rescans[r]
      waiting == {k \in 1..Len(m.projects) :
                    /\ m.projects[k].entry > rescan.cursor
                    /\ ~IsActive(rescan.activeProjects, m.projects[k].path)}
  IN  IF waiting = {}
      THEN [m EXCEPT !.rescans[r].pc = "done"]
      ELSE [m EXCEPT !.rescans[r].pc = "hasSpecs",
                     !.rescans[r].cursor = m.projects[Least(waiting)].entry,
                     !.rescans[r].watcher = m.projects[Least(waiting)].watcher]

\* the first loop of a rescan callback from index k on, run up to its next
\* await: at the first active project that the map does not have,
\* initializeProject creates a watcher and awaits its start(); after the
\* last project the second loop begins
AdvanceNew(m, r, k) ==
  LET rescan == m.rescans[r]
      new == {j \in k..Len(rescan.activeProjects) :
                ~HasProject(m.projects, rescan.activeProjects[j])}
  IN  IF new = {}
      THEN AdvanceOld([m EXCEPT !.rescans[r].cursor = 0], r)
      ELSE [m EXCEPT !.watchers = Append(@, [path |-> rescan.activeProjects[Least(new)],
                                             state |-> "starting"]),
                     !.rescans[r].pc = "start",
                     !.rescans[r].k = Least(new),
                     !.rescans[r].watcher = Len(m.watchers) + 1]

\* there is room for the watchers a callback may create
RoomForWatchers == Len(multi.watchers) < MaxWatchers

\* start(): the active projects are initialized one after the other, the
\* server listens and the rescan interval is set
MultiStart(activeProjects) ==
  /\ multi = NoMulti
  /\ multi' = [multi EXCEPT
                 !.started = TRUE,
                 !.interval = TRUE,
                 !.inserted = Len(activeProjects),
                 !.watchers = [k \in 1..Len(activeProjects) |->
                                 [path |-> activeProjects[k], state |-> "running"]],
                 !.projects = [k \in 1..Len(activeProjects) |->
                                 [path |-> activeProjects[k], watcher |-> k, entry |-> k]]]
  /\ UNCHANGED <<tasksMd, result, commandVars, packageVars, progressVars, scanVars, dashboard>>

\* the interval fires: a callback starts and awaits discoverProjects()
RescanFires ==
  /\ multi.interval
  /\ Len(multi.rescans) < MaxRescans
  /\ multi' = [multi EXCEPT
                 !.rescans = Append(@, [pc |-> "discover", activeProjects |-> <<>>,
                                        k |-> 0, cursor |-> 0, watcher |-> 0])]
  /\ UNCHANGED <<tasksMd, result, commandVars, packageVars, progressVars, scanVars, dashboard>>

\* discoverProjects() resolves and the callback enters its first loop
RescanDiscovered(r, activeProjects) ==
  /\ multi.rescans[r].pc = "discover"
  /\ RoomForWatchers
  /\ multi' = AdvanceNew([multi EXCEPT !.rescans[r].activeProjects = activeProjects], r, 1)
  /\ UNCHANGED <<tasksMd, result, commandVars, packageVars, progressVars, scanVars, dashboard>>

\* watcher.start() resolves in initializeProject: the watcher runs and is
\* recorded in the map; the callback then awaits getAllSpecs()
RescanWatcherStarted(r) ==
  /\ multi.rescans[r].pc = "start"
  /\ LET w == multi.rescans[r].watcher
     IN  multi' = SetProject([multi EXCEPT !.watchers[w].state = "running",
                                           !.rescans[r].pc = "specs"],
                             multi.watchers[w].path, w)
  /\ UNCHANGED <<tasksMd, result, commandVars, packageVars, progressVars, scanVars, dashboard>>

\* getAllSpecs() resolves: 'new-project' is sent and the first loop goes on
RescanNewProjectSent(r) ==
  /\ multi.rescans[r].pc = "specs"
  /\ RoomForWatchers
  /\ multi' = AdvanceNew(multi, r, multi.rescans[r].k + 1)
  /\ UNCHANGED <<tasksMd, result, commandVars, packageVars, progressVars, scanVars, dashboard>>

\* getAllSpecs() of a project that is no longer active resolves: with specs
\* the project stays; without, stop() of its watcher is called and awaited
RescanSpecsRead(r, hasSpecs) ==
  /\ multi.rescans[r].pc = "hasSpecs"
  /\ multi' =
       IF hasSpecs
       THEN AdvanceOld(multi, r)
       ELSE [multi EXCEPT !.rescans[r].pc = "stopWatcher",
                          !.watchers[multi.rescans[r].watcher].state = "stopped"]
  /\ UNCHANGED <<tasksMd, result, commandVars, packageVars, progressVars, scanVars, dashboard>>

\* watcher.stop() resolves: the path is deleted from the map,
\* 'remove-project' is sent and the second loop goes on
RescanWatcherStopped(r) ==
  /\ multi.rescans[r].pc = "stopWatcher"
  /\ multi' = AdvanceOld(DeleteProject(multi, multi.watchers[multi.rescans[r].watcher].path), r)
  /\ UNCHANGED <<tasksMd, result, commandVars, packageVars, progressVars, scanVars, dashboard>>

\* the loop of stop() up to its next await: stop() of the watcher of the
\* next entry is called and awaited; after the last entry the clients are
\* closed and the server is closed
AdvanceStop(m) ==
  LET waiting == {k \in 1..Len(m.projects) : m.projects[k].entry > m.stop.cursor}
  IN  IF waiting = {}
      THEN [m EXCEPT !.stop.pc = "done", !.started = FALSE]
      ELSE [m EXCEPT !.stop.pc = "stopWatcher",
                     !.stop.cursor = m.projects[Least(waiting)].entry,
                     !.stop.watcher = m.projects[Least(waiting)].watcher,
                     !.watchers[m.projects[Least(waiting)].watcher].state = "stopped"]

\* stop() is called: the interval is cleared and the loop over the map begins
MultiStop ==
  /\ multi.started
  /\ multi.stop.pc = "none"
  /\ multi' = AdvanceStop([multi EXCEPT !.interval = FALSE])
  /\ UNCHANGED <<tasksMd, result, commandVars, packageVars, progressVars, scanVars, dashboard>>

\* watcher.stop() resolves in stop()
StopWatcherStopped ==
  /\ multi.stop.pc = "stopWatcher"
  /\ multi' = AdvanceStop(multi)
  /\ UNCHANGED <<tasksMd, result, commandVars, packageVars, progressVars, scanVars, dashboard>>

NextMulti ==
  \/ \E activeProjects \in ActiveLists : MultiStart(activeProjects)
  \/ RescanFires
  \/ \E r \in 1..Len(multi.rescans), activeProjects \in ActiveLists :
       RescanDiscovered(r, activeProjects)
  \/ \E r \in 1..Len(multi.rescans) : RescanWatcherStarted(r)
  \/ \E r \in 1..Len(multi.rescans) : RescanNewProjectSent(r)
  \/ \E r \in 1..Len(multi.rescans), hasSpecs \in BOOLEAN : RescanSpecsRead(r, hasSpecs)
  \/ \E r \in 1..Len(multi.rescans) : RescanWatcherStopped(r)
  \/ MultiStop
  \/ StopWatcherStopped

SpecMulti == InitMulti /\ [][NextMulti]_vars

(* --------- the inspect-setup command with a spec, and loadSpec -------- *)

\* longest tasks.md (in lines) of the spec that inspect-setup loads
MaxInspectLines == 2

InspectLines == {TaskLine("", Unchecked, id) : id \in {Id1, Id1p1, Id2}}

\* the values of --task: not given, the empty string, ids that are written
\* in the document or not, and texts that are not ids
TaskOptions ==
  {None, Some(<<>>), Some(Id1), Some(Id1p1), Some(Id3), Some(<<"1", ".">>), Some(<<"a">>)}

\* --task with at most one of --task-summary, --full-tasks, --next-task
InspectOptions ==
  {[task |-> t, taskSummary |-> f = 1, fullTasks |-> f = 2, nextTask |-> f = 3] :
     t \in TaskOptions, f \in 0..3}

\* a string option in a condition: undefined and '' are both falsy
Truthy(option) == option # None /\ option[1] # <<>>

\* the mode the action derives from the options
TaskModeOf(options) ==
  IF options.taskSummary THEN "task_summary"
  ELSE IF options.fullTasks THEN "full_tasks"
  ELSE IF options.nextTask THEN "task_summary"
  ELSE IF Truthy(options.task) THEN "single_task"
  ELSE "full_tasks"

InitInspect ==
  /\ tasksMd \in {d \in SeqsUpTo(InspectLines, MaxInspectLines) : UniqueIds(d)}
  /\ result = NoResult
  /\ CommandIdle
  /\ PackageIdle
  /\ ProgressIdle
  /\ ScanIdle
  /\ DashboardIdle

\* the action of inspect-setup with --spec, up to its await of loadSpec: an
\* id that fails the validation ends the process with exit code 1
InspectSetup(options) ==
  /\ cli.pc = "idle"
  /\ result = NoResult
  /\ IF Truthy(options.task) /\ ~isValidTaskId(options.task[1])
     THEN /\ cli' = [pc |-> "exited", options |-> options, exitCode |-> 1]
          /\ UNCHANGED loadSpecCall
     ELSE /\ cli' = [pc |-> "loadSpec", options |-> options, exitCode |-> 0]
          /\ loadSpecCall' = [pc |-> "readTasks", taskMode |-> TaskModeOf(options),
                              taskId |-> options.task, tasksContent |-> <<>>,
                              tasksResult |-> None]
  /\ UNCHANGED <<tasksMd, result, packageVars, progressVars, scanVars, dashboardVars>>

\* variant: a copy of the text as it was before the executor's edits is used
LoadSpecReadTasks_EarlierText ==
  /\ loadSpecCall.pc = "readTasks"
  /\ loadSpecCall' = [loadSpecCall EXCEPT
                        !.pc = "parse",
                        !.tasksContent = [k \in 1..Len(tasksMd) |->
                                            [tasksMd[k] EXCEPT !.box = Unchecked]]]
  /\ UNCHANGED <<tasksMd, result, cli, packageVars, progressVars, scanVars, dashboardVars>>

\* const tasksContent = await fs.readFile(tasksPath, 'utf-8')
LoadSpecReadTasks ==
  /\ loadSpecCall.pc = "readTasks"
  /\ loadSpecCall' = [loadSpecCall EXCEPT !.pc = "parse", !.tasksContent = tasksMd]
  /\ UNCHANGED <<tasksMd, result, cli, packageVars, progressVars, scanVars, dashboardVars>>

\* tasksResult of the three task modes, from the text that was read
TasksResultOf(taskMode, taskId, tasksContent) ==
  IF taskMode = "single_task" /\ Truthy(taskId)
  THEN [mode |-> "single_task",
        content |-> [task |-> parseSpecificTask(tasksContent, taskId[1]),
                     context |-> getTaskContext(tasksContent, taskId[1])]]
  ELSE IF taskMode = "task_summary"
  THEN [mode |-> "task_summary", content |-> parseTaskSummary(tasksContent)]
  ELSE [mode |-> "full_tasks",
        content |-> [tasks |-> parseAllTasks(tasksContent),
                     summary |-> parseTaskSummary(tasksContent),
                     raw_content |-> tasksContent]]

\* variant: the summary is taken from the file as it is now, the list from
\* the text read before
LoadSpecParseTasks_ReadsAgain ==
  /\ loadSpecCall.pc = "parse"
  /\ loadSpecCall' =
       [loadSpecCall EXCEPT
          !.pc = "return",
          !.tasksResult =
             Some(IF loadSpecCall.taskMode = "single_task" /\ Truthy(loadSpecCall.taskId)
                  THEN [mode |-> "single_task",
                        content |-> [task |-> parseSpecificTask(loadSpecCall.tasksContent,
                                                                loadSpecCall.taskId[1]),
                                     context |-> getTaskContext(tasksMd, loadSpecCall.taskId[1])]]
                  ELSE IF loadSpecCall.taskMode = "task_summary"
                  THEN [mode |-> "task_summary", content |-> parseTaskSummary(tasksMd)]
                  ELSE [mode |-> "full_tasks",
                        content |-> [tasks |-> parseAllTasks(loadSpecCall.tasksContent),
                                     summary |-> parseTaskSummary(tasksMd),
                                     raw_content |-> loadSpecCall.tasksContent]])]
  /\ UNCHANGED <<tasksMd, result, cli, packageVars, progressVars, scanVars, dashboardVars>>

\* the branch on taskMode after the import of the task parser
LoadSpecParseTasks ==
  /\ loadSpecCall.pc = "parse"
  /\ loadSpecCall' =
       [loadSpecCall EXCEPT
          !.pc = "return",
          !.tasksResult = Some(TasksResultOf(loadSpecCall.taskMode, loadSpecCall.taskId,
                                             loadSpecCall.tasksContent))]
  /\ UNCHANGED <<tasksMd, result, cli, packageVars, progressVars, scanVars, dashboardVars>>

\* variant: loadSpec ticks the checkbox of the first task line before it returns
LoadSpecReturn_TicksFirstTask ==
  /\ loadSpecCall.pc = "return"
  /\ result' = [op |-> "loadSpec", tasksContent |-> loadSpecCall.tasksContent,
                taskMode |-> loadSpecCall.taskMode, taskId |-> loadSpecCall.taskId,
                value |-> [current_spec |-> [tasks |-> loadSpecCall.tasksResult]]]
  /\ loadSpecCall' = NoLoadSpecCall
  /\ cli' = [cli EXCEPT !.pc = "exited", !.exitCode = 0]
  /\ tasksMd' = [k \in 1..Len(tasksMd) |->
                   IF k = 1 THEN [tasksMd[k] EXCEPT !.box = Checked] ELSE tasksMd[k]]
  /\ UNCHANGED <<packageVars, progressVars, scanVars, dashboardVars>>

\* loadSpec returns current_spec with tasksResult; the action reports it
\* and the process ends with exit code 0
LoadSpecReturn ==
  /\ loadSpecCall.pc = "return"
  /\ result' = [op |-> "loadSpec", tasksContent |-> loadSpecCall.tasksContent,
                taskMode |-> loadSpecCall.taskMode, taskId |-> loadSpecCall.taskId,
                value |-> [current_spec |-> [tasks |-> loadSpecCall.tasksResult]]]
  /\ loadSpecCall' = NoLoadSpecCall
  /\ cli' = [cli EXCEPT !.pc = "exited", !.exitCode = 0]
  /\ UNCHANGED <<tasksMd, packageVars, progressVars, scanVars, dashboardVars>>

\* the process is gone; the command can be run again
CommandExit ==
  /\ cli.pc = "exited"
  /\ result = NoResult
  /\ cli' = NoCommand
  /\ UNCHANGED <<tasksMd, result, loadSpecCall, packageVars, progressVars, scanVars, dashboardVars>>

NextInspect ==
  \/ \E i \in 1..Len(tasksMd) : ExecutorMarkCompleted(i)
  \/ \E options \in InspectOptions : InspectSetup(options)
  \/ LoadSpecReadTasks
  \/ LoadSpecParseTasks
  \/ LoadSpecReturn
  \/ Return
  \/ CommandExit

\* inspect-setup runs while the executor edits tasks.md
SpecInspect == InitInspect /\ [][NextInspect]_vars

\* the command, and the parser's operations called directly while no
\* command is running
NextCore ==
  \/ NextInspect
  \/ CommandIdle /\ InvokeParseAllTasks
  \/ CommandIdle /\ InvokeParseTaskSummary
  \/ CommandIdle /\ InvokeGetRecommendedNextTask
  \/ CommandIdle /\ InvokeIsExecutionReady
  \/ CommandIdle /\ InvokeFindNextPendingTask
  \/ CommandIdle /\ \E taskId \in LookupIds : InvokeParseSpecificTask(taskId)
  \/ CommandIdle /\ \E taskId \in LookupIds : InvokeGetTaskContext(taskId)

\* every operation of the core next to the executor
SpecCore == InitInspect /\ [][NextCore]_vars

(* ====================================================================== *)
(* Properties.  The task graph is read off the document's lines directly, *)
(* without the parser's helpers, so that the statements below compare the *)
(* code's answers with the hierarchy the ids denote.                      *)
(* ====================================================================== *)

\* the task lines of a document, in document order (line k <-> k-th task)
TaskRows(content) == SelectSeq(content, LAMBDA l : l.kind = "task")

RowDone(row) == Trim(row.box) = <<"x">>

DotPositions(id) == {k \in 1..Len(id) : id[k] = "."}

DepthOf(id) == Cardinality(DotPositions(id))

\* the id without its last dotted component; NoStr for a top-level id
ParentIdOf(id) ==
  IF DotPositions(id) = {} THEN NoStr
  ELSE SubSeq(id, 1, (CHOOSE k \in DotPositions(id) : \A j \in DotPositions(id) : j <= k) - 1)

\* the numbers an id is made of
NumParts(id) == [k \in 1..Len(Split(id)) |-> Number(Split(id)[k])]

\* a sorts strictly before b, comparing the numbers component by component
NumBefore(a, b) ==
  \E k \in 1..Len(NumParts(a)) :
    /\ k <= Len(NumParts(b))
    /\ \A j \in 1..(k - 1) : NumParts(a)[j] = NumParts(b)[j]
    /\ NumParts(a)[k] < NumParts(b)[k]

AreSiblings(r, s) == DepthOf(r.id) = DepthOf(s.id) /\ ParentIdOf(r.id) = ParentIdOf(s.id)

RowWithId(rows, id) == {k \in 1..Len(rows) : rows[k].id = id}

\* parent completed, or absent from the document
ParentSatisfied(rows, k) ==
  \/ ParentIdOf(rows[k].id) = NoStr
  \/ RowWithId(rows, ParentIdOf(rows[k].id)) = {}
  \/ \E p \in RowWithId(rows, ParentIdOf(rows[k].id)) : RowDone(rows[p])

\* the siblings that numerically precede the task and are not completed
OpenEarlierSiblings(rows, k) ==
  {j \in 1..Len(rows) :
     AreSiblings(rows[j], rows[k]) /\ NumBefore(rows[j].id, rows[k].id) /\ ~RowDone(rows[j])}

\* the pending tasks whose dependency conditions hold
ReadyRows(rows) ==
  {k \in 1..Len(rows) :
     ~RowDone(rows[k]) /\ ParentSatisfied(rows, k) /\ OpenEarlierSiblings(rows, k) = {}}

DoneRows(rows) == {k \in 1..Len(rows) : RowDone(rows[k])}

PendingRows(rows) == {k \in 1..Len(rows) : ~RowDone(rows[k])}

\* the invocation in `result` is one of the two recommenders
IsRecommendation == result.op \in {"parseTaskSummary", "getRecommendedNextTask"}

\* what that invocation recommends (None or <<task>>)
Recommended ==
  IF result.op = "parseTaskSummary" THEN result.value.recommended_next_task
  ELSE result.value

\* the rows of the content the invocation was given
ArgRows == TaskRows(result.tasksContent)

\* the code's own answer for the k-th task of a content
CodeReady(content, k) ==
  LET tasks == parseAllTasks(content)
  IN  areTaskDependenciesSatisfied(tasks[k], tasks, SelectSeq(tasks, IsCompleted))

\* the recommended task is the task of row k
RecommendsRow(k) ==
  /\ Recommended # None
  /\ Recommended[1].id = ArgRows[k].id
  /\ Recommended[1].full_text = ArgRows[k]

(* C1: Bootstrap.  For every document with at least one task and no        *)
(* completed task, parseTaskSummary and getRecommendedNextTask recommend   *)
(* the first task in document order, whatever its id or depth, and         *)
(* execution_ready is true.                                                *)
C1_Bootstrap ==
  (IsRecommendation /\ Len(ArgRows) > 0 /\ DoneRows(ArgRows) = {})
    => /\ RecommendsRow(1)
       /\ result.op = "parseTaskSummary" => result.value.execution_ready = TRUE

\* a summary of a document without completed task whose first line is a
\* subtask standing before a top-level task
C1_Witness ==
  /\ result.op = "parseTaskSummary"
  /\ Len(ArgRows) >= 2
  /\ DoneRows(ArgRows) = {}
  /\ DepthOf(ArgRows[1].id) > DepthOf(ArgRows[2].id)
  /\ RecommendsRow(1)

(* C2 as stated: for every task list, whether or not any task is completed *)
(* yet, of two pending tasks that both satisfy the dependency conditions   *)
(* and differ in depth, the deeper one is never the recommended task.      *)
C2_DepthPriorityAlways ==
  IsRecommendation
    => \A a, b \in ReadyRows(ArgRows) :
         DepthOf(ArgRows[a].id) < DepthOf(ArgRows[b].id) => ~RecommendsRow(b)

(* C2 amended: when at least one task of the document is completed, of two *)
(* pending tasks that both satisfy the dependency conditions and differ in *)
(* depth, the deeper one is never the recommended task, whatever the       *)
(* document order of the lines.                                            *)
C2_DepthPriority ==
  (IsRecommendation /\ DoneRows(ArgRows) # {})
    => \A a, b \in ReadyRows(ArgRows) :
         DepthOf(ArgRows[a].id) < DepthOf(ArgRows[b].id) => ~RecommendsRow(b)

\* a recommendation over a document with a completed task in which a ready
\* subtask stands before a ready task of smaller depth
C2_Witness ==
  /\ IsRecommendation
  /\ DoneRows(ArgRows) # {}
  /\ \E a, b \in ReadyRows(ArgRows) :
       /\ DepthOf(ArgRows[a].id) < DepthOf(ArgRows[b].id)
       /\ b < a
       /\ RecommendsRow(a)

\* the invocation in `result` ran the dependency analysis: it is a
\* recommender, and its document has a completed and a pending task
RanDependencyAnalysis ==
  IsRecommendation /\ DoneRows(ArgRows) # {} /\ PendingRows(ArgRows) # {}

\* the k-th task of a content is pending and passes the code's dependency check
PendingAndReady(content, k) ==
  LET tasks == parseAllTasks(content)
  IN  /\ k \in 1..Len(tasks)
      /\ IsPending(tasks[k])
      /\ areTaskDependenciesSatisfied(tasks[k], tasks, SelectSeq(tasks, IsCompleted))

\* the step only ticks checkboxes: same lines, and what was completed stays so
OnlyCompletes(before, after) ==
  /\ before # after
  /\ Len(before) = Len(after)
  /\ TaskRows(after) = [k \in 1..Len(TaskRows(before)) |->
                          IF RowDone(TaskRows(before)[k]) THEN TaskRows(before)[k]
                          ELSE TaskRows(after)[k]]
  /\ \A k \in 1..Len(TaskRows(before)) : TaskRows(after)[k].id = TaskRows(before)[k].id

(* C3: Monotonic readiness.  When the only change to the document is the   *)
(* executor turning pending tasks into completed ones (no line added,      *)
(* removed or unchecked), a pending task that satisfied                    *)
(* areTaskDependenciesSatisfied before the change and is still pending     *)
(* satisfies it after the change; so a ready task stays ready at every     *)
(* later call until it is itself marked completed.                         *)
C3_MonotonicReadiness ==
  [][OnlyCompletes(tasksMd, tasksMd')
       => \A k \in 1..Len(TaskRows(tasksMd)) :
            (PendingAndReady(tasksMd, k) /\ ~RowDone(TaskRows(tasksMd')[k]))
              => PendingAndReady(tasksMd', k)]_vars

\* the executor has completed the parent of a task, the task is pending
\* and ready in the document a recommender is invoked on, and another task
\* is pending, so that further completions can follow
C3_Witness ==
  /\ RanDependencyAnalysis
  /\ result.tasksContent = tasksMd
  /\ \E k, m \in PendingRows(ArgRows) :
       /\ k # m
       /\ PendingAndReady(tasksMd, k)
       /\ \E p \in RowWithId(ArgRows, ParentIdOf(ArgRows[k].id)) : RowDone(ArgRows[p])

(* C4: when at least one task is completed and at least one pending task   *)
(* is ready, the recommended task is a ready pending task of smallest      *)
(* depth and, among the ready tasks of that depth, the one whose id is     *)
(* smallest under component-wise numeric comparison.                       *)
C4_SmallestReady ==
  (IsRecommendation /\ DoneRows(ArgRows) # {} /\ ReadyRows(ArgRows) # {})
    => \E r \in ReadyRows(ArgRows) :
         /\ RecommendsRow(r)
         /\ \A u \in ReadyRows(ArgRows) :
              \/ DepthOf(ArgRows[r].id) < DepthOf(ArgRows[u].id)
              \/ /\ DepthOf(ArgRows[r].id) = DepthOf(ArgRows[u].id)
                 /\ ~NumBefore(ArgRows[u].id, ArgRows[r].id)

\* two ready tasks of the same depth from different sibling groups, the
\* numerically larger one first in the document, and a deeper ready task
C4_Witness ==
  /\ IsRecommendation
  /\ DoneRows(ArgRows) # {}
  /\ \E r, u \in ReadyRows(ArgRows) :
       /\ RecommendsRow(r)
       /\ u < r
       /\ DepthOf(ArgRows[r].id) = DepthOf(ArgRows[u].id)
       /\ NumBefore(ArgRows[r].id, ArgRows[u].id)

(* C5: Parent completion rule.  A pending task whose parent id names a     *)
(* task present anywhere in the document is not ready while that parent is *)
(* pending; when no task with that parent id exists in the document, the   *)
(* parent condition never blocks: the task is ready exactly when its       *)
(* sibling condition holds.                                                *)
C5_ParentRule ==
  RanDependencyAnalysis
    => \A k \in PendingRows(ArgRows) :
         LET parentRows == RowWithId(ArgRows, ParentIdOf(ArgRows[k].id))
         IN  /\ (\E p \in parentRows : ~RowDone(ArgRows[p]))
                  => ~CodeReady(result.tasksContent, k)
             /\ parentRows = {}
                  => (CodeReady(result.tasksContent, k) <=> OpenEarlierSiblings(ArgRows, k) = {})

\* the analysis ran over a document holding a subtask kept back by its
\* pending parent and a ready subtask whose parent line does not exist
C5_Witness ==
  /\ RanDependencyAnalysis
  /\ \E k, m \in PendingRows(ArgRows) :
       /\ \E p \in RowWithId(ArgRows, ParentIdOf(ArgRows[k].id)) : ~RowDone(ArgRows[p])
       /\ ~CodeReady(result.tasksContent, k)
       /\ ParentIdOf(ArgRows[m].id) # NoStr
       /\ RowWithId(ArgRows, ParentIdOf(ArgRows[m].id)) = {}
       /\ CodeReady(result.tasksContent, m)

\* the sibling group of a task as the code orders it
CodeSiblings(content, k) ==
  LET tasks == parseAllTasks(content) IN getSiblingTasks(tasks[k], tasks)

(* C6: Sibling precedence.  A sibling group (same depth, same parent id)   *)
(* is ordered by component-wise numeric comparison of the ids; a pending   *)
(* task whose parent condition holds is blocked exactly when some sibling  *)
(* that sorts before it is not completed, so later siblings never block it *)
(* and 2.9 must be completed before 2.10 is ready, wherever the lines      *)
(* stand in the document.                                                  *)
C6_SiblingPrecedence ==
  RanDependencyAnalysis
    => \A k \in PendingRows(ArgRows) :
         /\ ParentSatisfied(ArgRows, k)
              => (~CodeReady(result.tasksContent, k) <=> OpenEarlierSiblings(ArgRows, k) # {})
         /\ LET sib == CodeSiblings(result.tasksContent, k)
            IN  /\ \A i, j \in 1..Len(sib) : i < j => NumBefore(sib[i].id, sib[j].id)
                /\ {sib[i].id : i \in 1..Len(sib)}
                     = {ArgRows[j].id : j \in {n \in 1..Len(ArgRows) : AreSiblings(ArgRows[n], ArgRows[k])}}

\* 2.10 stands before 2.9 in the document, both pending with their parent
\* condition met: 2.10 is blocked and 2.9 is ready
C6_Witness ==
  /\ RanDependencyAnalysis
  /\ \E k, m \in PendingRows(ArgRows) :
       /\ k < m
       /\ ArgRows[k].id = Id2p10
       /\ ArgRows[m].id = Id2p9
       /\ ParentSatisfied(ArgRows, k)
       /\ ~CodeReady(result.tasksContent, k)
       /\ CodeReady(result.tasksContent, m)

(* C7: for every document, execution_ready is true if and only if          *)
(* recommended_next_task is defined, and both hold if and only if at least *)
(* one task is pending; a document whose tasks are all completed, or that  *)
(* has no task, yields no recommendation and execution_ready = false.      *)
C7_ReadyIffRecommended ==
  /\ result.op = "parseTaskSummary"
       => /\ result.value.execution_ready <=> result.value.recommended_next_task # None
          /\ result.value.recommended_next_task # None <=> PendingRows(ArgRows) # {}
  /\ result.op = "isExecutionReady"
       => (result.value <=> PendingRows(ArgRows) # {})

\* a summary of a document with tasks, all of them completed
C7_Witness ==
  /\ result.op = "parseTaskSummary"
  /\ Len(ArgRows) >= 2
  /\ PendingRows(ArgRows) = {}
  /\ result.value.recommended_next_task = None
  /\ result.value.execution_ready = FALSE

\* n / d rounded to the nearest integer, halves upwards
RoundedQuotient(n, d) == (2 * n + d) \div (2 * d)

(* C9: Count invariant.  For every document, completed_tasks +             *)
(* pending_tasks = total_tasks, and completion_percentage equals           *)
(* 100 * completed_tasks / total_tasks rounded to the nearest integer, or  *)
(* 0 when total_tasks is 0.                                                *)
C9_CountInvariant ==
  result.op = "parseTaskSummary"
    => /\ result.value.completed_tasks + result.value.pending_tasks = result.value.total_tasks
       /\ result.value.completion_percentage =
            IF result.value.total_tasks = 0 THEN 0
            ELSE RoundedQuotient(100 * result.value.completed_tasks, result.value.total_tasks)

(* ---------------------------------------------------------------------- *)

\* the completed tasks of a list
CompletedCount(tasks) == Cardinality({k \in 1..Len(tasks) : tasks[k].status = "completed"})

\* the positions of the list whose task carries the id
PositionsOf(tasks, id) == {k \in 1..Len(tasks) : tasks[k].id = id}

\* the first element of the list with the id, if any, as an optional value
FirstWithId(tasks, id) ==
  IF PositionsOf(tasks, id) = {} THEN None
  ELSE Some(tasks[CHOOSE k \in PositionsOf(tasks, id) : \A j \in PositionsOf(tasks, id) : k <= j])

(* C11: Mode consistency.  On one document snapshot and for any task id,   *)
(* the read modes agree: total_tasks and completed_tasks of getTaskContext *)
(* equal those of parseTaskSummary and the length and completed count of   *)
(* parseAllTasks; parseSpecificTask returns the first element of           *)
(* parseAllTasks with that id; and parseSpecificTask is null exactly when  *)
(* getTaskContext is null.                                                 *)
C11_ModeConsistency ==
  LET content == result.tasksContent
      allTasks == parseAllTasks(content)
      summary == parseTaskSummary(content)
  IN  /\ result.op = "getTaskContext"
           => /\ result.value # None
                   => /\ result.value[1].total_tasks = summary.total_tasks
                      /\ result.value[1].total_tasks = Len(allTasks)
                      /\ result.value[1].completed_tasks = summary.completed_tasks
                      /\ result.value[1].completed_tasks = CompletedCount(allTasks)
              /\ result.value = None <=> parseSpecificTask(content, result.taskId) = None
      /\ result.op = "parseSpecificTask"
           => /\ result.value = FirstWithId(allTasks, result.taskId)
              /\ result.value = None <=> getTaskContext(content, result.taskId) = None
      /\ result.op = "parseTaskSummary"
           => /\ result.value.total_tasks = Len(allTasks)
              /\ result.value.completed_tasks = CompletedCount(allTasks)
      /\ result.op = "parseAllTasks"
           => /\ Len(result.value) = summary.total_tasks
              /\ CompletedCount(result.value) = summary.completed_tasks

\* a lookup of an id that two lines carry, the first pending and the second
\* completed: the task returned is the pending one
C11_Witness ==
  /\ result.op = "parseSpecificTask"
  /\ Cardinality(RowWithId(ArgRows, result.taskId)) = 2
  /\ \E k, m \in RowWithId(ArgRows, result.taskId) :
       k < m /\ ~RowDone(ArgRows[k]) /\ RowDone(ArgRows[m])
  /\ result.value # None
  /\ result.value[1].status = "pending"

\* loadSpec has returned to the command in the given task mode
LoadSpecReturned(mode) ==
  /\ result.op = "loadSpec"
  /\ result.value.current_spec.tasks # None
  /\ result.value.current_spec.tasks[1].mode = mode

\* the content of the tasks result that loadSpec returned
LoadedContent == result.value.current_spec.tasks[1].content

\* the summary's counts are those over the task rows of one document text
CountsOf(summary, rows) ==
  /\ summary.total_tasks = Len(rows)
  /\ summary.completed_tasks = Cardinality(DoneRows(rows))
  /\ summary.pending_tasks = Cardinality(PendingRows(rows))

(* C12: Single snapshot under a concurrent writer.  loadSpec reads         *)
(* tasks.md once per invocation and derives the task list, the summary and *)
(* the task context from that one text, so when the executor marks a task  *)
(* completed at any point between loadSpec's steps, the returned task list *)
(* and summary (or task and context) describe the same document state:     *)
(* the summary totals equal the counts over the returned list.             *)
C12_SingleSnapshot ==
  /\ LoadSpecReturned("full_tasks")
       => /\ LoadedContent.summary.total_tasks = Len(LoadedContent.tasks)
          /\ LoadedContent.summary.completed_tasks = CompletedCount(LoadedContent.tasks)
          /\ LoadedContent.summary.pending_tasks
               = Len(LoadedContent.tasks) - CompletedCount(LoadedContent.tasks)
          /\ [k \in 1..Len(LoadedContent.tasks) |-> LoadedContent.tasks[k].full_text]
               = TaskRows(LoadedContent.raw_content)
          /\ CountsOf(LoadedContent.summary, TaskRows(LoadedContent.raw_content))
  /\ LoadSpecReturned("single_task")
       => /\ LoadedContent.task = None <=> LoadedContent.context = None
          /\ LoadedContent.task # None
               => \E k \in 1..Len(ArgRows) :
                    /\ LoadedContent.task[1].full_text = ArgRows[k]
                    /\ LoadedContent.context[1].total_tasks = Len(ArgRows)
                    /\ LoadedContent.context[1].completed_tasks = Cardinality(DoneRows(ArgRows))
                    /\ LoadedContent.task[1].status = "completed" <=> k \in DoneRows(ArgRows)
  /\ LoadSpecReturned("task_summary") => CountsOf(LoadedContent, ArgRows)

\* loadSpec returns the full list and the summary of the text it read,
\* while the executor has meanwhile completed a task in tasks.md
C12_Witness ==
  /\ LoadSpecReturned("full_tasks")
  /\ Len(LoadedContent.tasks) = 2
  /\ LoadedContent.raw_content # tasksMd
  /\ LoadedContent.summary.completed_tasks < Cardinality(DoneRows(TaskRows(tasksMd)))

\* the optional task is the task of row k of the text the invocation read
IsRow(task, k) == task # None /\ task[1].id = ArgRows[k].id /\ task[1].full_text = ArgRows[k]

\* what loadSpec returned reports every completed row of the text it read
\* as completed and recommends none of them
ReportsTextRead ==
  \A k \in DoneRows(ArgRows) :
    /\ LoadSpecReturned("full_tasks")
         => /\ LoadedContent.tasks[k].status = "completed"
            /\ ~IsRow(LoadedContent.summary.recommended_next_task, k)
            /\ ~IsRow(LoadedContent.summary.next_pending_task, k)
    /\ LoadSpecReturned("task_summary")
         => /\ ~IsRow(LoadedContent.recommended_next_task, k)
            /\ ~IsRow(LoadedContent.next_pending_task, k)
            /\ LoadedContent.completed_tasks = Cardinality(DoneRows(ArgRows))
    /\ LoadSpecReturned("single_task")
         => (IsRow(LoadedContent.task, k) => LoadedContent.task[1].status = "completed")

(* C13: No stale state across calls.  Every invocation recomputes the task *)
(* list, the summary and the recommendation from the document content it   *)
(* reads in that invocation: the text it works on is tasks.md as it is at  *)
(* the time of the read, so a task the executor marked completed before is *)
(* reported as completed and is never recommended, whatever earlier        *)
(* invocations returned.                                                   *)
C13_NoStaleState ==
  /\ [](result.op = "loadSpec" => ReportsTextRead)
  /\ [][(loadSpecCall.pc = "readTasks" /\ loadSpecCall'.pc = "parse")
          => loadSpecCall'.tasksContent = tasksMd]_vars

\* a summary returned after the executor completed the first of two tasks:
\* the second task is recommended
C13_Witness ==
  /\ LoadSpecReturned("task_summary")
  /\ Len(ArgRows) = 2
  /\ DoneRows(ArgRows) = {1}
  /\ result.tasksContent = tasksMd
  /\ IsRow(LoadedContent.recommended_next_task, 2)

\* the step is one of the core: an invocation starts, proceeds or returns
CoreStep == result' # result \/ cli' # cli \/ loadSpecCall' # loadSpecCall

(* C14: the document is left unchanged by every core operation: parsing,   *)
(* summarising, recommending, looking up a task and loadSpec in any task   *)
(* mode never write tasks.md or change any task's status; only the         *)
(* external executor changes the document.                                 *)
C14_DocumentUnchanged ==
  [][/\ CoreStep => tasksMd' = tasksMd
     /\ tasksMd' # tasksMd => (~CoreStep /\ OnlyCompletes(tasksMd, tasksMd'))]_vars

\* loadSpec has looked up a pending task after the executor completed
\* another one, and tasks.md is still the text that was read
C14_Witness ==
  /\ LoadSpecReturned("single_task")
  /\ result.tasksContent = tasksMd
  /\ DoneRows(ArgRows) # {}
  /\ LoadedContent.task # None
  /\ LoadedContent.task[1].status = "pending"

\* the text is made of digits and single dots between digits
MatchesIdGrammar(text) ==
  /\ text # <<>>
  /\ \A k \in 1..Len(text) : text[k] \in {Digits[d] : d \in 1..10} \cup {"."}
  /\ text[1] # "." /\ text[Len(text)] # "."
  /\ \A k \in 1..(Len(text) - 1) : ~(text[k] = "." /\ text[k + 1] = ".")

\* a --task value was given to the command that is running or has ended
TaskSupplied == cli.pc # "idle" /\ cli.options.task # None

(* C15: Id validation before lookup.  In the inspect-setup command with a  *)
(* spec selected, a user-supplied task id that does not match              *)
(* ^\d+(?:\.\d+)*$ makes the command fail immediately (exit code 1) and    *)
(* loadSpec, and with it every task lookup, is never reached; loadSpec is  *)
(* invoked with a task id only when isValidTaskId accepted it.             *)
C15_ValidationBeforeLookup ==
  /\ (TaskSupplied /\ ~MatchesIdGrammar(cli.options.task[1]))
       => /\ cli.pc = "exited"
          /\ cli.exitCode = 1
          /\ loadSpecCall = NoLoadSpecCall
          /\ result = NoResult
  /\ (loadSpecCall.pc # "none" /\ loadSpecCall.taskId # None)
       => isValidTaskId(loadSpecCall.taskId[1])

\* the id is well-formed and no task row of the text carries it
AbsentId(id, rows) == MatchesIdGrammar(id) /\ RowWithId(rows, id) = {}

(* C16: Task not found is an absence, not an error.  For a well-formed     *)
(* task id that no task in the document carries, parseSpecificTask returns *)
(* null and getTaskContext returns null, neither throws, and loadSpec in   *)
(* single_task mode still returns a result whose task and context are both *)
(* null.                                                                   *)
C16_NotFoundIsAbsence ==
  /\ (result.op \in {"parseSpecificTask", "getTaskContext"} /\ AbsentId(result.taskId, ArgRows))
       => result.value = None
  /\ (result.op = "loadSpec" /\ result.taskMode = "single_task"
        /\ result.taskId # None /\ AbsentId(result.taskId[1], ArgRows))
       => /\ LoadSpecReturned("single_task")
          /\ LoadedContent.task = None
          /\ LoadedContent.context = None
          /\ cli.pc = "exited" /\ cli.exitCode = 0

\* loadSpec returns from the lookup of task 3 in a document of two tasks
C16_Witness ==
  /\ LoadSpecReturned("single_task")
  /\ result.taskId = Some(Id3)
  /\ Len(ArgRows) = 2
  /\ LoadedContent.task = None
  /\ LoadedContent.context = None

\* the smallest and the largest member of a non-empty set of row numbers
FirstOf(rowNumbers) == CHOOSE k \in rowNumbers : \A j \in rowNumbers : k <= j

LastOf(rowNumbers) == CHOOSE k \in rowNumbers : \A j \in rowNumbers : j <= k

\* the optional task is the first pending row of the text, none if no row is pending
IsFirstPending(task) ==
  IF PendingRows(ArgRows) = {} THEN task = None ELSE IsRow(task, FirstOf(PendingRows(ArgRows)))

\* the optional task is the last completed row of the text, none if no row is completed
IsLastCompleted(task) ==
  IF DoneRows(ArgRows) = {} THEN task = None ELSE IsRow(task, LastOf(DoneRows(ArgRows)))

(* C17: for every document, next_pending_task is the first pending task in *)
(* document order and last_completed_task is the last completed task in    *)
(* document order, both chosen without regard to depth, id order or        *)
(* dependency conditions, so next_pending_task may differ from             *)
(* recommended_next_task.                                                  *)
C17_FirstPendingLastCompleted ==
  /\ result.op = "parseTaskSummary"
       => /\ IsFirstPending(result.value.next_pending_task)
          /\ IsLastCompleted(result.value.last_completed_task)
  /\ result.op = "findNextPendingTask" => IsFirstPending(result.value)

\* a summary in which the first pending task is a subtask standing before
\* a pending top-level task: the top-level task is recommended, and the
\* last completed task is the last line
C17_Witness ==
  /\ result.op = "parseTaskSummary"
  /\ Len(ArgRows) = 3
  /\ PendingRows(ArgRows) = {1, 2}
  /\ DepthOf(ArgRows[1].id) > DepthOf(ArgRows[2].id)
  /\ IsRow(result.value.next_pending_task, 1)
  /\ IsRow(result.value.recommended_next_task, 2)
  /\ IsRow(result.value.last_completed_task, 3)

\* the checkbox content is one x with nothing but blanks around it
IsSingleX(box) ==
  \E i \in 1..Len(box) :
    box[i] = "x" /\ \A j \in 1..Len(box) : j # i => box[j] \in {" ", "\t"}

(* C18: Extraction.  parseAllTasks emits exactly one task per line that    *)
(* matches the task-line grammar, in document order, with status completed *)
(* exactly when the checkbox content is the single letter x (surrounding   *)
(* whitespace ignored); a line that does not match never produces a task   *)
(* and never prevents any later matching line from producing its task.     *)
C18_Extraction ==
  result.op = "parseAllTasks"
    => /\ Len(result.value) = Len(ArgRows)
       /\ \A k \in 1..Len(ArgRows) :
            /\ result.value[k].full_text = ArgRows[k]
            /\ result.value[k].id = ArgRows[k].id
            /\ result.value[k].status \in {"completed", "pending"}
            /\ result.value[k].status = "completed" <=> IsSingleX(ArgRows[k].box)

\* a completed task whose x stands between blanks, then a line with a
\* checkbox and a digit but no description, then a task with two x
C18_Witness ==
  /\ result.op = "parseAllTasks"
  /\ Len(result.tasksContent) = 3
  /\ result.tasksContent[1].kind = "task" /\ result.tasksContent[1].box = <<" ", "x", " ">>
  /\ result.tasksContent[2].kind = "stub"
  /\ result.tasksContent[3].kind = "task" /\ result.tasksContent[3].box = <<"x", "x">>
  /\ Len(result.value) = 2
  /\ result.value[1].status = "completed"
  /\ result.value[2].status = "pending"

(* C19: Package metadata cache.  After one successful getPackageMetadata() *)
(* call, every later call returns the same metadata without reading        *)
(* package.json again, even when reading the file would now fail (until    *)
(* clearPackageMetadataCache() is called, which no step here does).        *)
C19_PackageMetadataCache ==
  [][(metaCall.outcome = "returned" /\ metaCall' # metaCall)
       => /\ metaCall'.outcome = "returned"
          /\ metaCall'.value = metaCall.value
          /\ metaCall'.reads = metaCall.reads]_vars

\* the line numbers of the task lines of a text, and the line of the k-th task
TaskLineNumbers(content) == {p \in 1..Len(content) : content[p].kind = "task"}

LineOfTask(content, k) ==
  CHOOSE p \in TaskLineNumbers(content) :
    Cardinality({j \in TaskLineNumbers(content) : j <= p}) = k

\* the line is non-empty and starts with a character that is not
\* whitespace (space, tab and carriage return are whitespace)
StartsUnindented(line) == line.lead = "" /\ ~(line.kind = "blank")

\* line b is a blank line whose next line is non-empty and unindented
BlankBlockEnd(content, b) ==
  /\ content[b].kind = "blank"
  /\ b + 1 <= Len(content)
  /\ StartsUnindented(content[b + 1])

\* line q lies in the block of the task line p: p is the most recent task
\* line and no block end lies between them
InBlock(content, p, q) ==
  /\ p < q
  /\ \A j \in (p + 1)..q : content[j].kind # "task"
  /\ \A b \in (p + 1)..(q - 1) : ~BlankBlockEnd(content, b)

\* the capture of the last line of the block of p that has one, trimmed
LastCapture(content, p, field) ==
  LET carriers == {q \in 1..Len(content) : InBlock(content, p, q) /\ content[q][field] # NoStr}
  IN  IF carriers = {} THEN NoStr ELSE Trim(content[LastOf(carriers)][field])

(* C20: Metadata block extent.  A Requirements or Leverage line is         *)
(* attached to the most recent task line exactly when no block end lies    *)
(* between them; the block ends at the next task line or at a blank line   *)
(* whose next line is non-empty and starts with a non-whitespace           *)
(* character, and after the block has ended every metadata line is ignored *)
(* until the next task line starts a new block.                            *)
C20_MetadataBlockExtent ==
  result.op = "parseAllTasks"
    => \A k \in 1..Len(result.value) :
         /\ result.value[k].requirements_ref
              = LastCapture(result.tasksContent, LineOfTask(result.tasksContent, k), "req")
         /\ result.value[k].leverage
              = LastCapture(result.tasksContent, LineOfTask(result.tasksContent, k), "lev")

\* the lines after task line p up to the next task line or the end
LinesUnder(content, p) ==
  {q \in (p + 1)..Len(content) : \A j \in (p + 1)..q : content[j].kind # "task"}

\* the text without the blanks at its ends
Stripped(text) ==
  LET filled == {i \in 1..Len(text) : text[i] \notin {" ", "\t"}}
  IN  IF filled = {} THEN <<>> ELSE SubSeq(text, FirstOf(filled), LastOf(filled))

(* C21: Metadata overwrite.  When a task's metadata block holds several    *)
(* Requirements lines (or several Leverage lines), the task's              *)
(* requirements_ref (or leverage) is the value captured from the last such *)
(* line of the block, and a Requirements line never changes leverage nor a *)
(* Leverage line requirements_ref.                                         *)
C21_MetadataOverwrite ==
  result.op = "parseAllTasks"
    => \A k \in 1..Len(result.value) :
         LET content == result.tasksContent
             block == LinesUnder(content, LineOfTask(content, k))
             reqLines == {q \in block : content[q].req # NoStr}
             levLines == {q \in block : content[q].lev # NoStr}
         IN  /\ result.value[k].requirements_ref
                  = IF reqLines = {} THEN NoStr ELSE Stripped(content[LastOf(reqLines)].req)
             /\ result.value[k].leverage
                  = IF levLines = {} THEN NoStr ELSE Stripped(content[LastOf(levLines)].lev)

\* a task followed by two Requirements lines with different values and a
\* Leverage line: the second value is kept and the leverage is set
C21_Witness ==
  /\ result.op = "parseAllTasks"
  /\ result.tasksContent
       = <<TaskLine("", Unchecked, Id1), RequirementsLine, OtherRequirementsLine, LeverageLine>>
  /\ result.value[1].requirements_ref = <<"4">>
  /\ result.value[1].leverage = <<"a">>

\* the line holds the task itself, its parent or one of its siblings
ConcernsTask(line, task) ==
  /\ line.kind = "task"
  /\ \/ line.id = task.id
     \/ line.id = ParentIdOf(task.id)
     \/ AreSiblings(line, task)

\* what a line may be replaced by without touching the task, its parent or
\* its siblings: another checkbox on any other task line, another
\* requirements or leverage text on a metadata line
LineVariants(line, task) ==
  IF line.kind = "task"
  THEN IF ConcernsTask(line, task) THEN {line}
       ELSE {[line EXCEPT !.box = box] : box \in {Unchecked, Checked}}
  ELSE {RequirementsLine, OtherRequirementsLine, LeverageLine, BothLabelsLine, DetailLine}

\* the documents that differ from content in such lines only
RECURSIVE DocumentVariants(_, _)
DocumentVariants(content, task) ==
  IF content = <<>> THEN {<<>>}
  ELSE {Append(front, line) :
          front \in DocumentVariants(SubSeq(content, 1, Len(content) - 1), task),
          line \in LineVariants(content[Len(content)], task)}

(* C22: No other dependency signal.  In a document with unique ids,        *)
(* whether a pending task T satisfies the dependency conditions depends    *)
(* only on the status of T's parent (if present) and of T's siblings:      *)
(* changing the status of any other task (a grandparent, a child of T, a   *)
(* task of another branch) or any requirements/leverage text never changes *)
(* T's readiness.                                                          *)
C22_NoOtherDependencySignal ==
  result.op = "getRecommendedNextTask"
    => \A k \in PendingRows(ArgRows) :
         \A other \in DocumentVariants(result.tasksContent, ArgRows[k]) :
           CodeReady(other, k) = CodeReady(result.tasksContent, k)

\* getRecommendedNextTask ran the dependency analysis on the current
\* document, in which a pending task has a completed task that is neither its parent
\* nor its sibling, and a pending parent that keeps it from being ready
C22_Witness ==
  /\ RanDependencyAnalysis
  /\ result.op = "getRecommendedNextTask"
  /\ result.tasksContent = tasksMd
  /\ \E k \in PendingRows(ArgRows), j \in DoneRows(ArgRows) :
       /\ ~ConcernsTask(ArgRows[j], ArgRows[k])
       /\ ~CodeReady(tasksMd, k)
       /\ Cardinality(DocumentVariants(tasksMd, ArgRows[k])) > 1

\* the same lines in every order
RECURSIVE Reorderings(_)
Reorderings(content) ==
  IF content = <<>> THEN {<<>>}
  ELSE UNION {{Append(rest, content[i]) :
                 rest \in Reorderings([j \in 1..(Len(content) - 1) |->
                                         IF j < i THEN content[j] ELSE content[j + 1]])} :
              i \in 1..Len(content)}

\* the ids of the tasks of a content that pass the code's dependency check
ReadyIds(content) ==
  LET tasks == parseAllTasks(content)
      completedTasks == SelectSeq(tasks, IsCompleted)
  IN  {tasks[k].id :
         k \in {j \in 1..Len(tasks) :
                  /\ IsPending(tasks[j])
                  /\ areTaskDependenciesSatisfied(tasks[j], tasks, completedTasks)}}

\* the id of the task the recommender of parseTaskSummary chooses for a
\* content, if any
RecommendedId(content) ==
  LET tasks == parseAllTasks(content)
      task == recommendInline(tasks, SelectSeq(tasks, IsCompleted),
                              SelectSeq(tasks, IsPending)).recommendedTask
  IN  IF task = None THEN None ELSE Some(task[1].id)

(* C23: Independence from physical order.  For two documents that hold the *)
(* same tasks (same ids, pairwise numerically distinct, same statuses) in  *)
(* different line orders and that have at least one completed task, the    *)
(* set of ready tasks is the same and recommended_next_task has the same   *)
(* id.                                                                     *)
C23_OrderIndependence ==
  (result.op = "parseTaskSummary" /\ DoneRows(ArgRows) # {})
    => LET ready == ReadyIds(result.tasksContent)
           recommended == IF result.value.recommended_next_task = None THEN None
                          ELSE Some(result.value.recommended_next_task[1].id)
       IN  \A other \in Reorderings(result.tasksContent) :
             ReadyIds(other) = ready /\ RecommendedId(other) = recommended

\* the summary of a document with a completed task and two ready tasks of
\* the same depth, written in descending order
C23_Witness ==
  /\ result.op = "parseTaskSummary"
  /\ DoneRows(ArgRows) # {}
  /\ \E a, b \in 1..Len(ArgRows) :
       /\ a < b
       /\ {ArgRows[a].id, ArgRows[b].id} \subseteq ReadyIds(result.tasksContent)
       /\ DepthOf(ArgRows[a].id) = DepthOf(ArgRows[b].id)
       /\ NumBefore(ArgRows[b].id, ArgRows[a].id)
       /\ RecommendsRow(b)

\* the invocation in `result` is one that runs getRecommendedNextTask
AsksRecommendation ==
  result.op \in {"getRecommendedNextTask", "isExecutionReady", "getExecutionStatus"}

(* C24: The ready set is never empty while work remains.  For every task   *)
(* list with at least one pending task, at least one pending task          *)
(* satisfies areTaskDependenciesSatisfied, so the fallback branch of the   *)
(* recommender is never taken and getExecutionStatus never returns         *)
(* blocked_reason 'No tasks ready for execution (dependency issues)'.      *)
C24_ReadySetNeverEmpty ==
  /\ (AsksRecommendation \/ result.op = "parseTaskSummary")
       => (PendingRows(ArgRows) # {}
             => \E k \in PendingRows(ArgRows) : CodeReady(result.tasksContent, k))
  /\ result.op = "getExecutionStatus"
       => /\ result.value.blocked_reason
               # Some("No tasks ready for execution (dependency issues)")
          /\ PendingRows(ArgRows) # {} => result.value.ready

\* getExecutionStatus on a document with a completed task in which a
\* pending task is held back by its pending parent and an id is repeated
C24_Witness ==
  /\ result.op = "getExecutionStatus"
  /\ result.value.ready
  /\ DoneRows(ArgRows) # {}
  /\ \E k \in PendingRows(ArgRows) : ~CodeReady(result.tasksContent, k)
  /\ \E a, b \in 1..Len(ArgRows) : a # b /\ ArgRows[a].id = ArgRows[b].id

\* the invocation in `result` returns a recommended task
GivesRecommendation ==
  result.op \in {"parseTaskSummary", "getRecommendedNextTask", "getExecutionStatus"}

\* the task of row k is the one that invocation recommends
IsRecommendedRow(k) ==
  LET task == IF result.op = "parseTaskSummary" THEN result.value.recommended_next_task
              ELSE IF result.op = "getExecutionStatus" THEN result.value.next_task
              ELSE result.value
  IN  /\ task # None
      /\ task[1].id = ArgRows[k].id
      /\ task[1].full_text = ArgRows[k]

\* parent completed or absent, and every numerically preceding sibling completed
RespectsDependencies(rows, k) ==
  ParentSatisfied(rows, k) /\ OpenEarlierSiblings(rows, k) = {}

(* C25 as stated: every recommendation respects the dependencies, for      *)
(* every document, including documents whose lines are not in numeric      *)
(* order and documents with no completed task: the recommended task's      *)
(* parent is completed or absent from the document and every sibling that  *)
(* numerically precedes it is completed.                                   *)
C25_RespectsDependenciesAlways ==
  GivesRecommendation
    => \A k \in 1..Len(ArgRows) : IsRecommendedRow(k) => RespectsDependencies(ArgRows, k)

(* C25: every recommendation made for a document with at least one         *)
(* completed task respects the dependencies, whatever the order of the     *)
(* lines: the recommended task's parent is completed or absent from the    *)
(* document and every sibling that numerically precedes it is completed.   *)
C25_RespectsDependencies ==
  (GivesRecommendation /\ DoneRows(ArgRows) # {})
    => \A k \in 1..Len(ArgRows) : IsRecommendedRow(k) => RespectsDependencies(ArgRows, k)

\* a recommendation for a document written in descending order: the
\* recommended task stands before its completed parent and its completed
\* earlier sibling
C25_Witness ==
  /\ GivesRecommendation
  /\ \E k, s, p \in 1..Len(ArgRows) :
       /\ IsRecommendedRow(k)
       /\ k < s /\ s < p
       /\ ArgRows[p].id = ParentIdOf(ArgRows[k].id) /\ RowDone(ArgRows[p])
       /\ AreSiblings(ArgRows[s], ArgRows[k])
       /\ NumBefore(ArgRows[s].id, ArgRows[k].id) /\ RowDone(ArgRows[s])

\* the summary in `result` is that of the current document
SummaryOfRun == result.op = "parseTaskSummary" /\ result.tasksContent = tasksMd

\* each step has lowered the number of pending tasks by one
OneLessPerStep ==
  Cardinality(PendingRows(TaskRows(tasksMd))) = run.pendingAtStart - run.steps

NoneRecommendedTwice ==
  \A a, b \in 1..Len(run.recommended) :
    run.recommended[a] = run.recommended[b] => a = b

\* the summary after as many steps as there were pending tasks
ReportsAllDone ==
  /\ result.value.pending_tasks = 0
  /\ result.value.completion_percentage = 100
  /\ result.value.execution_ready = FALSE

(* C26 as stated: progress.  Starting from any document, if the executor   *)
(* repeatedly marks the currently recommended task as completed and makes  *)
(* no other edit, each step lowers pending_tasks by exactly one, no task   *)
(* is recommended twice, and after as many steps as there were pending     *)
(* tasks the summary reports pending_tasks = 0, completion_percentage =    *)
(* 100 and execution_ready = false.                                        *)
C26_ProgressFromAnyDocument ==
  /\ OneLessPerStep
  /\ NoneRecommendedTwice
  /\ (SummaryOfRun /\ run.steps = run.pendingAtStart) => ReportsAllDone

(* C26: progress.  Starting from any document with at least one task, if   *)
(* the executor repeatedly marks the currently recommended task as         *)
(* completed and makes no other edit, each step lowers pending_tasks by    *)
(* exactly one, no task is recommended twice, and after as many steps as   *)
(* there were pending tasks the summary reports pending_tasks = 0,         *)
(* completion_percentage = 100 and execution_ready = false.                *)
C26_Progress ==
  /\ OneLessPerStep
  /\ NoneRecommendedTwice
  /\ (SummaryOfRun /\ run.steps = run.pendingAtStart /\ Len(TaskRows(tasksMd)) > 0)
       => ReportsAllDone

\* the summary after the executor has completed three recommended tasks,
\* which were all that was pending
C26_Witness ==
  /\ SummaryOfRun
  /\ run.steps = 3
  /\ run.pendingAtStart = 3
  /\ result.value.completion_percentage = 100

(* C27: The two recommenders agree.  For every document,                   *)
(* parseTaskSummary(doc).recommended_next_task is the same task as         *)
(* getRecommendedNextTask(doc) (undefined where the latter is null),       *)
(* parseTaskSummary(doc).execution_ready equals isExecutionReady(doc), and *)
(* getExecutionStatus(doc).ready equals both.                              *)
C27_RecommendersAgree ==
  /\ result.op = "parseTaskSummary"
       => /\ result.value.recommended_next_task = getRecommendedNextTask(result.tasksContent)
          /\ result.value.execution_ready = isExecutionReady(result.tasksContent)
          /\ result.value.execution_ready = getExecutionStatus(result.tasksContent).ready
  /\ result.op = "getRecommendedNextTask"
       => result.value = parseTaskSummary(result.tasksContent).recommended_next_task
  /\ result.op = "isExecutionReady"
       => /\ result.value = parseTaskSummary(result.tasksContent).execution_ready
          /\ result.value = getExecutionStatus(result.tasksContent).ready
  /\ result.op = "getExecutionStatus"
       => /\ result.value.ready = parseTaskSummary(result.tasksContent).execution_ready
          /\ result.value.ready = isExecutionReady(result.tasksContent)

\* the summary of a document with a completed task and a repeated id whose
\* first pending task is not the recommended one
C27_Witness ==
  /\ result.op = "parseTaskSummary"
  /\ result.value.execution_ready
  /\ DoneRows(ArgRows) # {}
  /\ result.value.recommended_next_task # result.value.next_pending_task
  /\ \E a, b \in 1..Len(ArgRows) : a # b /\ ArgRows[a].id = ArgRows[b].id

\* the line starts like a checkbox item with a digit, for the parser
StartsLikeTask(parser, line) ==
  /\ line.kind \in {"task", "stub"}
  /\ parser = "parseTasksFromMarkdown" => \A c \in 1..Len(line.box) : line.box[c] = " "

\* the line is a full task line, for the parser
IsFullTaskLine(parser, line) == StartsLikeTask(parser, line) /\ line.kind = "task"

\* the full task lines the scan has gone past
TaskLinesPassed ==
  {k \in 1..Len(scan.lines) : k < scan.i /\ IsFullTaskLine(scan.parser, scan.lines[k])}

\* line k, at which the index was stepped back, lies in the block of the
\* task the scan is in
InCurrentBlock(k) ==
  /\ k <= scan.i
  /\ \A j \in (k + 1)..(scan.i - 1) : ~IsFullTaskLine(scan.parser, scan.lines[j])

(* C28: The line scan terminates on every finite document.  The scan index *)
(* is stepped back (i--) only for a line that starts like a checkbox item  *)
(* with a digit but is not a full task line, the collecting flag is        *)
(* cleared before that line is visited again, so each line is visited at   *)
(* most twice; such a line produces no task and ends metadata collection   *)
(* for the current task.                                                   *)
C28_ScanTerminates ==
  scan.parser \in Parsers
    => /\ \A k \in scan.steppedBack :
            /\ StartsLikeTask(scan.parser, scan.lines[k])
            /\ ~IsFullTaskLine(scan.parser, scan.lines[k])
            /\ InCurrentBlock(k) => ~scan.isCollectingTaskContent
       /\ \A k \in 1..Len(scan.lines) :
            /\ scan.visits[k] <= 2
            /\ scan.visits[k] = 2 => k \in scan.steppedBack
            /\ (k = scan.i /\ scan.visits[k] > 0) => ~scan.isCollectingTaskContent
            /\ k > scan.i => scan.visits[k] = 0
            /\ k < scan.i => scan.visits[k] > 0
       /\ scan.i <= Len(scan.lines) + 1
       /\ Len(scan.tasks) + (IF scan.currentTask = None THEN 0 ELSE 1)
            = Cardinality(TaskLinesPassed)

\* the scan has visited a task line once, the checkbox-and-digit line
\* after it twice, and has gone past a Requirements line after that
\* without taking its value
C28_Witness ==
  /\ scan.parser = "parseAllTasks"
  /\ scan.i > Len(scan.lines)
  /\ scan.lines[1].kind = "task"
  /\ scan.visits = <<1, 2, 1>>
  /\ scan.lines[3] = RequirementsLine
  /\ scan.currentTask # None
  /\ scan.currentTask[1].requirements_ref = NoStr
  /\ Len(scan.tasks) = 0

(* C29: Dashboard message order.  Every WebSocket client of                *)
(* DashboardServer receives its 'initial' message before any 'update'      *)
(* message, under every interleaving of the client's connection, the       *)
(* asynchronous getAllSpecs() that builds the initial state, and watcher   *)
(* 'change' events.                                                        *)
C29_InitialBeforeUpdate ==
  \A s \in Sockets :
    \A k \in 1..Len(dashboard.received[s]) :
      dashboard.received[s][k] = "update"
        => \E j \in 1..(k - 1) : dashboard.received[s][j] = "initial"

\* the watchers of a path that have been started and not stopped
RunningWatchers(path) ==
  {w \in 1..Len(multi.watchers) :
     multi.watchers[w].path = path /\ multi.watchers[w].state = "running"}

\* the watcher the projects map records for a path
RecordedWatchers(path) ==
  {multi.projects[k].watcher :
     k \in {j \in 1..Len(multi.projects) : multi.projects[j].path = path}}

(* C30: One watcher per project.  In MultiProjectDashboardServer, under    *)
(* every interleaving of the 30-second rescan callbacks (which are         *)
(* asynchronous and may overlap) with each other and with stop(), at most  *)
(* one watcher is ever started and running for a given project path, and   *)
(* every running watcher is the one recorded in the projects map for that  *)
(* path.                                                                   *)
C30_OneWatcherPerProject ==
  \A p \in 1..Len(Paths) :
    /\ Cardinality(RunningWatchers(Paths[p])) <= 1
    /\ RunningWatchers(Paths[p]) \subseteq RecordedWatchers(Paths[p])

====
